---- MODULE Spec2Model ----
(***************************************************************************)
(* State-machine model of the Twitch bot's response pipeline:              *)
(*   - GenerativeAI  (src/ia/generativeAI.js), in its two versions: the    *)
(*     Grok version (lines 449-839) and the ApiFreeLLM version (1-448);    *)
(*   - TwitchClient.say / connect / disconnect (src/unnamed/part_003);     *)
(*   - StreamObserver (src/modules/knowledgeManager.js, lines 364-658).    *)
(*                                                                         *)
(* Conventions.  Real numbers in [0,1] (intensity, sensitivity, a draw of  *)
(* Math.random()) are integers in hundredths.  Times are milliseconds.     *)
(* Strings are sequences of one-character strings.  JavaScript runs each   *)
(* handler to its first await without interleaving, so an async handler is *)
(* two actions: the synchronous part up to axios.post, and the             *)
(* continuation that runs when the completion call settles.                *)
(***************************************************************************)
EXTENDS Integers, Sequences, FiniteSets, TLC

VARIABLES
    variant,              \* which version of generativeAI.js is loaded
    features,             \* config.bot.features: the layers index.js creates
    now,                  \* Date.now()
    isActive,             \* GenerativeAI.isActive
    responseProcessor,    \* GenerativeAI.responseProcessor is a live timer
    drainDue,             \* the setInterval callback is due and has not run yet
    intensity,            \* GenerativeAI.intensity
    lastResponseTime,     \* GenerativeAI.lastResponseTime
    conversationHistory,  \* GenerativeAI.conversationHistory
    recentEvents,         \* GenerativeAI.gameplayContext.recentEvents
    responseQueue,        \* GenerativeAI.responseQueue
    pending,              \* completion calls (axios.post) that have not settled
    triggers,             \* chat messages and gameplay events handled so far
    calls,                \* completion calls started so far (ids of the calls)
    client,               \* TwitchClient.client is not null
    isConnected,          \* TwitchClient.isConnected
    chatLog,              \* what reached the chat transport (tmi client.say)
    unhandled,            \* an exception escaped a handler to its caller
    lastSettled,          \* the completion call that settled last, and how
    sensitivity,          \* StreamObserver.sensitivity
    gameplayData,         \* StreamObserver.gameplayData
    criticalMoments,      \* StreamObserver.criticalMoments
    emitted,              \* events StreamObserver.emit handed to its listeners
    isObserving,          \* StreamObserver.isObserving
    analysisInterval,     \* StreamObserver.analysisInterval is a live timer
    analysisDue,          \* the analysis callback is due and has not run yet
    listeners,            \* StreamObserver.listeners, by topic, in registration order
    clipActive,           \* AutoClipper.isActive
    clipDue,              \* the clipProcessor callback is due and has not run yet
    credentials,          \* TWITCH_CLIENT_ID and TWITCH_ACCESS_TOKEN are both set
    clipQueue,            \* AutoClipper.clipQueue
    recentClips,          \* AutoClipper.recentClips
    lastClipTime,         \* AutoClipper.lastClipTime
    clipPending,          \* createClip calls waiting on the Twitch API
    clipSeq,              \* moments and manual requests handled so far (serials)
    clipLog,              \* what the clip pipeline did, in order
    clipTicks,            \* steps of the clock taken by the clip pipeline's runs
    call,                 \* the last direct call of a pure method and its result
    clipProcessor,        \* AutoClipper.clipProcessor is a live timer
    timers,               \* live setInterval timers, by the component that set them
    booted,               \* the layers index.js has initialised so far
    commandsClipper,      \* ChatCommands.autoClipper is not null
    inbox,                \* chat messages tmi handed to onMessageHandler, in order
    reactiveActive,       \* ReactiveResponses.isActive
    reactiveLast,         \* ReactiveResponses.lastResponseTime
    reactivePending,      \* processMessage calls suspended at their await
    reactiveSeen,         \* messages handed to processMessage so far
    recurringActive,      \* RecurringMessages.isActive
    recurringTimer,       \* RecurringMessages.timer: the timeout it holds, 0 for null
    timeouts,             \* setTimeout timers that have not fired and were not cleared
    timeoutSeq,           \* timeouts set so far (their ids)
    lastChatActivity,     \* RecurringMessages.lastChatActivity
    messageIndex,         \* RecurringMessages.messageIndex
    panelSecret,          \* config.WEB_PANEL_SECRET, "" when it is not configured
    production,           \* NODE_ENV is 'production'
    bannedList,           \* config.filters.bannedWords as the panel set it
    panelSeen,            \* requests the web panel has answered so far
    lastResponse          \* the request the panel answered last, and its answer

engineVars == <<variant, features, now, isActive, responseProcessor, drainDue, intensity,
                lastResponseTime, conversationHistory, recentEvents,
                responseQueue, pending, triggers, calls, unhandled,
                lastSettled>>
clientVars == <<client, isConnected, chatLog>>
observingVars == <<isObserving, analysisInterval, analysisDue, listeners>>
observerVars == <<sensitivity, gameplayData, criticalMoments, emitted,
                  observingVars>>
clipperVars == <<clipActive, clipDue, credentials, clipQueue, recentClips,
                 lastClipTime, clipPending, clipSeq, clipLog, clipTicks>>
\* the state of the modules around the pipeline
timerVars == <<clipProcessor, timers>>
frontVars == <<booted, commandsClipper, inbox>>
\* the modules that own no timer of the pipeline
reactiveVars == <<reactiveActive, reactiveLast, reactivePending, reactiveSeen>>
recurringVars == <<recurringActive, recurringTimer, timeouts, timeoutSeq,
                   lastChatActivity, messageIndex>>
panelVars == <<panelSecret, production, bannedList, panelSeen, lastResponse>>
aroundVars == <<frontVars, reactiveVars, recurringVars, panelVars>>
moduleVars == <<timerVars, aroundVars>>
vars == <<engineVars, clientVars, observerVars, clipperVars, call, moduleVars>>

----------------------------------------------------------------------------
(* Bounds of the model *)

MaxTicks == 2        \* clock steps of drainInterval the model follows
MaxTriggers == 2     \* triggers (chat messages, gameplay events) the engine handles
MaxMsgLen == 3       \* length of the chat messages of the decision specification
MaxObserved == 2     \* gameplay events the observer processes

----------------------------------------------------------------------------
(* Program constants *)

minResponseInterval == 30000
drainInterval == 5000
queueMaxAge == 60000
historyLimit == 20
recentEventsLimit == 10
apiFreeHistoryLimit == 5
filterMaxLen == 500
cleanMaxLen == 400
momentsLimit == 50
Half == 50           \* the literal 0.5, in hundredths
Unit == 100          \* the literal 1, in hundredths
clipCooldown == 60000       \* this.clipCooldown
clipPeriod == 10000         \* period of the clipProcessor timer
clipMaxAge == 120000        \* age beyond which a dequeued request is dropped
clipsLimit == 20            \* length recentClips is cut back to
clipMinIntensity == 60      \* the literal 0.6, in hundredths

\* Date.now() when the process starts: an epoch time, far above any interval.
StartTime == queueMaxAge + minResponseInterval

Variants == {"grok", "apifree"}

\* the layers of config.bot.features the model follows; the chat layer is the
\* one that creates bot.twitchClient
AllFeatures == {"chatCommands", "streamObserver", "generativeAI", "autoClipping"}

\* the topics StreamObserver emits
Topics == {"criticalMoment", "gameplayEvent"}
\* this.listeners before any call of on()
NoListeners == [topic \in Topics |-> <<>>]

\* the components that own a periodic timer
Components == {"engine", "observer", "clipper"}

\* setInterval(callback, period) called by a component: one more live timer
setInterval(live, component) == [live EXCEPT ![component] = @ + 1]

\* clearInterval(handle) with the component's handle: that timer is gone
clearInterval(live, component) == [live EXCEPT ![component] = @ - 1]

----------------------------------------------------------------------------
(* Configuration (config.json) the model runs with *)

botPrefix == <<"!">>
twitchUsername == <<"B", "o">>
twitchChannels == << <<"#", "one">>, <<"#", "two">> >>
bannedWords == << <<"b", "a", "d">> >>

----------------------------------------------------------------------------
(* Strings *)

Chars == {"!", "b", "B", "o", "O", "i", "a", "x"}

RECURSIVE StringsUpTo(_)
StringsUpTo(n) ==
    IF n = 0 THEN {<<>>}
    ELSE LET shorter == StringsUpTo(n - 1)
         IN  shorter \cup {Append(s, c) : s \in shorter, c \in Chars}

LowerChar(c) ==
    CASE c = "B" -> "b"
      [] c = "O" -> "o"
      [] c = "A" -> "a"
      [] c = "D" -> "d"
      [] OTHER -> c

toLowerCase(s) == [i \in 1..Len(s) |-> LowerChar(s[i])]

startsWith(s, prefix) ==
    /\ Len(prefix) <= Len(s)
    /\ SubSeq(s, 1, Len(prefix)) = prefix

includes(s, sub) ==
    \E i \in 1..(Len(s) - Len(sub) + 1) : SubSeq(s, i, i + Len(sub) - 1) = sub

IsSpace(c) == c \in {" ", "\n"}

RECURSIVE trimStart(_)
trimStart(s) ==
    IF s # <<>> /\ IsSpace(Head(s)) THEN trimStart(Tail(s)) ELSE s

RECURSIVE trimEnd(_)
trimEnd(s) ==
    IF s # <<>> /\ IsSpace(s[Len(s)]) THEN trimEnd(SubSeq(s, 1, Len(s) - 1)) ELSE s

trim(s) == trimEnd(trimStart(s))

Max(a, b) == IF a >= b THEN a ELSE b
Min(a, b) == IF a <= b THEN a ELSE b

----------------------------------------------------------------------------
(* JavaScript values *)

\* A value that is either null or a string.
Null == [isNull |-> TRUE, text |-> <<>>]
Str(t) == [isNull |-> FALSE, text |-> t]
\* JavaScript truthiness of such a value: null and "" are falsy.
Truthy(v) == ~v.isNull /\ v.text # <<>>

\* `x || 0.5` on a number: 0 (and undefined, read as 0) gives the default.
OrDefault(x) == IF x = 0 THEN Half ELSE x

\* Math.max(0, Math.min(1, x))
\* Mutant: the value is capped at 1 but not floored at 0.
clamp_noFloor(x) == Min(Unit, x)

clamp(x) == Max(0, Min(Unit, x))

----------------------------------------------------------------------------
(* GenerativeAI, Grok version: pure parts *)

\* The cooldown test of shouldRespond: true when the trigger is too early.
cooldownBlocks(t) == t - lastResponseTime < minResponseInterval

\* Mutant: the mention test compares the raw message, without toLowerCase.
mentionsBot_caseSensitive(message) ==
    includes(message, toLowerCase(twitchUsername))

mentionsBot(message) ==
    includes(toLowerCase(message), toLowerCase(twitchUsername))

\* shouldRespond(message, userstate); random is the value Math.random() returns
\* when the last branch is reached.
shouldRespond(message, random) ==
    IF startsWith(message, botPrefix) THEN FALSE
    ELSE IF cooldownBlocks(now) THEN FALSE
    ELSE IF mentionsBot(message) THEN TRUE
    ELSE random * 10 < intensity

containsBanned(lower) ==
    \E k \in 1..Len(bannedWords) : includes(lower, toLowerCase(bannedWords[k]))

filterResponse(response) ==
    IF containsBanned(toLowerCase(response)) THEN Null
    ELSE IF Len(response) > filterMaxLen
         THEN Str(SubSeq(response, 1, filterMaxLen - 3) \o <<".", ".", ".">>)
         ELSE Str(response)

\* Mutant: the history is not cut at the limit.
addToConversationHistory_unbounded(history, username, message) ==
    Append(history, [username |-> username, message |-> message, timestamp |-> now])

addToConversationHistory(history, username, message) ==
    LET pushed == Append(history, [username |-> username, message |-> message,
                                   timestamp |-> now])
    IN  IF Len(pushed) > historyLimit THEN Tail(pushed) ELSE pushed

----------------------------------------------------------------------------
(* GenerativeAI, ApiFreeLLM version: pure parts *)

\* shouldRespond(eventData)
shouldRespondApiFree(eventData) ==
    IF ~isActive THEN FALSE
    ELSE IF now - lastResponseTime < minResponseInterval THEN FALSE
    ELSE LET eventIntensity == OrDefault(eventData.intensity)
             threshold == Unit - intensity
         IN  IF eventData.type = "chat_mention" THEN TRUE
             ELSE eventIntensity >= threshold

\* isMention of processChatMessage
isMention(message) ==
    LET messageLower == toLowerCase(message)
    IN  \/ includes(messageLower, toLowerCase(twitchUsername))
        \/ includes(messageLower, <<"i", "a">>)

\* The condition under which processChatMessage calls generateResponse.
chatDecisionApiFree(message) ==
    isMention(message) \/ shouldRespondApiFree([type |-> "chat", intensity |-> Half])

WordChars == {"b", "B", "o", "O", "i", "a", "x", "k", "d", "A", "D", "_"}
PunctChars == {"!", "?", ".", ",", ";", ":", "(", ")"}
\* the characters /[^\w\sÀ-ſ!?.,;:()...]/g keeps
AllowedChar(c) == c \in WordChars \cup PunctChars \cup {" ", "\n"}

\* text.replace(/\n+/g, ' ')
RECURSIVE collapseNewlines(_)
collapseNewlines(s) ==
    IF s = <<>> THEN <<>>
    ELSE IF Head(s) = "\n"
         THEN IF Len(s) > 1 /\ s[2] = "\n" THEN collapseNewlines(Tail(s))
              ELSE <<" ">> \o collapseNewlines(Tail(s))
         ELSE <<Head(s)>> \o collapseNewlines(Tail(s))

cleanResponse(text) ==
    LET flat == trim(collapseNewlines(text))
        cut == IF Len(flat) > cleanMaxLen
               THEN SubSeq(flat, 1, cleanMaxLen - 3) \o <<".", ".", ".">>
               ELSE flat
    IN  trim(SelectSeq(cut, AllowedChar))

----------------------------------------------------------------------------
(* Completion calls and the chat transport *)

NoEvent == [type |-> "none", intensity |-> 0, timestamp |-> 0]

\* A completion call in flight.  id numbers the calls; startedAt and
\* lastAtStart are Date.now() and lastResponseTime when the trigger was
\* decided; during holds the ids of the calls then in flight.
NewCall(path, channels, username, message, event) ==
    [id |-> calls + 1, path |-> path, channels |-> channels,
     username |-> username, message |-> message, event |-> event,
     startedAt |-> now, lastAtStart |-> lastResponseTime,
     during |-> {c.id : c \in pending}]

NoCall ==
    [id |-> 0, path |-> "none", channels |-> <<>>, username |-> <<>>,
     message |-> <<>>, event |-> NoEvent, startedAt |-> 0, lastAtStart |-> 0,
     during |-> {}]

\* What axios.post can settle with: a body carrying the generated text, a
\* body without the expected fields, or a rejection (timeout, network error,
\* error status).
FailureKinds == {"timeout", "network", "status", "malformed"}
ReplyTexts == {<<"o", "k">>, <<"B", "A", "D", "!">>, <<" ">>}
Outcomes ==
    {[kind |-> "ok", text |-> t] : t \in ReplyTexts}
        \cup {[kind |-> k, text |-> <<>>] : k \in FailureKinds}

\* TwitchClient.say(channel, message), for each channel of the list in turn:
\* the messages that reach the transport.
say(log, channels, text, c) ==
    IF client /\ isConnected
    THEN log \o [i \in 1..Len(channels) |->
                    [kind |-> "reply", call |-> c, at |-> now, text |-> text,
                     channel |-> channels[i], active |-> isActive]]
    ELSE log

\* TwitchClient.connect(): creates the tmi client, connects and greets every
\* configured channel.
Connect ==
    /\ ~client
    /\ client' = TRUE
    /\ isConnected' = TRUE
    /\ chatLog' = chatLog \o [i \in 1..Len(twitchChannels) |->
                    [kind |-> "status", call |-> NoCall, at |-> now,
                     text |-> <<"o", "n">>, channel |-> twitchChannels[i],
                     active |-> isActive]]
    /\ UNCHANGED <<engineVars, observerVars, clipperVars,
                   call>>
    /\ UNCHANGED moduleVars

\* TwitchClient.onDisconnectedHandler(reason)
OnDisconnected ==
    /\ client
    /\ isConnected
    /\ isConnected' = FALSE
    /\ UNCHANGED <<client, chatLog, engineVars, observerVars, clipperVars,
                   call>>
    /\ UNCHANGED moduleVars

----------------------------------------------------------------------------
(* GenerativeAI: activation, intensity, clock *)

\* Mutant: activate() does not return when the engine is active already.
Activate_again ==
    /\ isActive' = TRUE
    /\ responseProcessor' = TRUE
    /\ timers' = setInterval(timers, "engine")
    /\ drainDue' = FALSE
    /\ UNCHANGED <<clipProcessor, aroundVars>>
    /\ UNCHANGED <<variant, features, now, intensity, lastResponseTime, conversationHistory,
                   recentEvents, responseQueue, pending, triggers, calls, unhandled,
                   lastSettled, clientVars, observerVars, clipperVars,
                   call>>

\* activate()
Activate ==
    /\ ~isActive
    /\ isActive' = TRUE
    /\ responseProcessor' = TRUE
    /\ timers' = setInterval(timers, "engine")
    /\ drainDue' = FALSE
    /\ UNCHANGED <<clipProcessor, aroundVars>>
    /\ UNCHANGED <<variant, features, now, intensity, lastResponseTime, conversationHistory,
                   recentEvents, responseQueue, pending, triggers, calls, unhandled,
                   lastSettled, clientVars, observerVars, clipperVars,
                   call>>

\* Mutant: the flag is cleared and the timer is left running.
Deactivate_keepsTimer ==
    /\ isActive
    /\ isActive' = FALSE
    /\ UNCHANGED <<responseProcessor, drainDue, moduleVars>>
    /\ UNCHANGED <<variant, features, now, intensity, lastResponseTime, conversationHistory,
                   recentEvents, responseQueue, pending, triggers, calls, unhandled,
                   lastSettled, clientVars, observerVars, clipperVars,
                   call>>

\* deactivate()
Deactivate ==
    /\ isActive
    /\ isActive' = FALSE
    /\ responseProcessor' = FALSE
    /\ timers' = IF responseProcessor THEN clearInterval(timers, "engine") ELSE timers
    /\ drainDue' = FALSE
    /\ UNCHANGED <<clipProcessor, aroundVars>>
    /\ UNCHANGED <<variant, features, now, intensity, lastResponseTime, conversationHistory,
                   recentEvents, responseQueue, pending, triggers, calls, unhandled,
                   lastSettled, clientVars, observerVars, clipperVars,
                   call>>

\* updateIntensity(newIntensity)
UpdateIntensity(x) ==
    /\ intensity' = clamp(x)
    /\ UNCHANGED <<variant, features, now, isActive, responseProcessor, drainDue,
                   lastResponseTime, conversationHistory, recentEvents,
                   responseQueue, pending, triggers, calls, unhandled,
                   lastSettled, clientVars, observerVars, clipperVars,
                   call>>
    /\ UNCHANGED moduleVars

\* The clock advances by one period of the response processor, which is also
\* the period of the observer's analysis timer; a live timer then has its
\* callback due, and the callback runs before the next period.  The clip
\* processor, started with the bot, is due every second period.
Advance ==
    /\ ~drainDue
    /\ ~analysisDue
    /\ ~clipDue
    /\ now + drainInterval <= StartTime + MaxTicks * drainInterval
    /\ now' = now + drainInterval
    /\ drainDue' = responseProcessor
    /\ analysisDue' = analysisInterval
    /\ clipDue' = (clipActive /\ (now' - StartTime) % clipPeriod = 0)
    /\ UNCHANGED <<variant, features, isActive, responseProcessor, intensity,
                   lastResponseTime, conversationHistory, recentEvents,
                   responseQueue, pending, triggers, calls, unhandled,
                   lastSettled, clientVars, sensitivity, gameplayData,
                   criticalMoments, emitted, isObserving, analysisInterval,
                   listeners, clipActive, credentials, clipQueue, recentClips,
                   lastClipTime, clipPending, clipSeq, clipLog, clipTicks,
                   call>>
    /\ UNCHANGED moduleVars

----------------------------------------------------------------------------
(* Inputs *)

Users == {<<"u">>}
\* tmi userstate: the sender and the room-id tag ("" when the tag is absent)
Userstates == {[username |-> u, roomId |-> "7", channel |-> twitchChannels[1]] :
                  u \in Users}
\* the channels chat messages arrive on
ChatChannels == {twitchChannels[1]}
ChatInputs == {<<"x">>, <<"B", "O">>, <<"!", "b", "o">>}
RandomDraws == {0, 5, 99}
IntensityInputs == {-20, 130}
EventTypes == {"kill", "death", "win", "loss", "combo", "rare_achievement"}
EventIntensities == {10, 50, 60, 70, 71, 80, 81, 99}
GameplayInputs == {[type |-> "kill", intensity |-> 90, timestamp |-> 0],
                   [type |-> "death", intensity |-> 50, timestamp |-> 0]}
\* config.ai.intensity as configured (0 also stands for an absent value)
ConfigIntensities == {0}

----------------------------------------------------------------------------
(* GenerativeAI, Grok version: handlers *)

\* processChatMessage(channel, userstate, message), up to the completion call
ProcessChatMessage(channel, userstate, message, random) ==
    /\ variant = "grok"
    /\ isActive
    /\ triggers < MaxTriggers
    /\ triggers' = triggers + 1
    /\ conversationHistory' =
           addToConversationHistory(conversationHistory, userstate.username, message)
    /\ IF shouldRespond(message, random)
       THEN /\ pending' = pending \cup
                    {NewCall("chat", <<channel>>, userstate.username, message, NoEvent)}
            /\ calls' = calls + 1
       ELSE UNCHANGED <<pending, calls>>
    /\ UNCHANGED <<variant, features, now, isActive, responseProcessor, drainDue, intensity,
                   lastResponseTime, recentEvents, responseQueue, unhandled,
                   lastSettled, clientVars, observerVars, clipperVars,
                   call>>
    /\ UNCHANGED moduleVars

\* Mutant: the response is put at the front of the queue.
queueGameplayResponse_atFront(queue, event) ==
    <<[type |-> "gameplay", event |-> event, timestamp |-> now]>> \o queue

\* queueGameplayResponse(event)
queueGameplayResponse(queue, event) ==
    Append(queue, [type |-> "gameplay", event |-> event, timestamp |-> now])

\* the push of processGameplayEvent(event): recentEvents afterwards
pushRecentEvent(events, event) ==
    LET pushed == Append(events, [type |-> event.type, intensity |-> event.intensity,
                                  timestamp |-> now])
    IN  IF Len(pushed) > recentEventsLimit THEN Tail(pushed) ELSE pushed

\* processGameplayEvent(event)
ProcessGameplayEvent(event) ==
    /\ variant = "grok"
    /\ isActive
    /\ triggers < MaxTriggers
    /\ triggers' = triggers + 1
    /\ recentEvents' = pushRecentEvent(recentEvents, event)
    /\ responseQueue' = IF event.intensity > 70
                        THEN queueGameplayResponse(responseQueue, event)
                        ELSE responseQueue
    /\ UNCHANGED <<variant, features, now, isActive, responseProcessor, drainDue, intensity,
                   lastResponseTime, conversationHistory, pending, calls,
                   unhandled, lastSettled, clientVars, observerVars, clipperVars,
                   call>>
    /\ UNCHANGED moduleVars

\* The effect of generateResponse(channel, userstate, message) once the call
\* has settled: the reply handed to say (or null), whether lastResponseTime is
\* set, and whether an exception leaves the function.
\* Mutant: the try block does not catch a failed call.
generateResponse_uncaught(outcome) ==
    IF outcome.kind # "ok"
    THEN [reply |-> Null, mark |-> FALSE, threw |-> TRUE]
    ELSE LET filteredResponse == filterResponse(trim(outcome.text))
         IN  IF Truthy(filteredResponse)
             THEN [reply |-> filteredResponse, mark |-> TRUE, threw |-> FALSE]
             ELSE [reply |-> Null, mark |-> FALSE, threw |-> FALSE]

generateResponse(outcome) ==
    IF outcome.kind # "ok"
    THEN [reply |-> Null, mark |-> FALSE, threw |-> FALSE]
    ELSE LET filteredResponse == filterResponse(trim(outcome.text))
         IN  IF Truthy(filteredResponse)
             THEN [reply |-> filteredResponse, mark |-> TRUE, threw |-> FALSE]
             ELSE [reply |-> Null, mark |-> FALSE, threw |-> FALSE]

\* The same for generateGameplayComment(event): it never sets lastResponseTime.
generateGameplayComment(outcome) ==
    IF outcome.kind # "ok"
    THEN [reply |-> Null, mark |-> FALSE, threw |-> FALSE]
    ELSE LET filteredComment == filterResponse(trim(outcome.text))
         IN  IF Truthy(filteredComment)
             THEN [reply |-> filteredComment, mark |-> FALSE, threw |-> FALSE]
             ELSE [reply |-> Null, mark |-> FALSE, threw |-> FALSE]

----------------------------------------------------------------------------
(* GenerativeAI, ApiFreeLLM version: handlers *)

\* the channel processChatMessage answers in
replyChannel(userstate) ==
    IF userstate.roomId # "" THEN <<"#", userstate.roomId>> ELSE userstate.channel

\* processChatMessage(username, message, userstate), up to the completion call.
\* generateResponse starts the call because isActive holds here.
ProcessChatMessageApiFree(username, message, userstate) ==
    /\ variant = "apifree"
    /\ isActive
    /\ triggers < MaxTriggers
    /\ triggers' = triggers + 1
    /\ IF chatDecisionApiFree(message)
       THEN /\ pending' = pending \cup
                    {NewCall("chat", <<replyChannel(userstate)>>, username, message,
                             NoEvent)}
            /\ calls' = calls + 1
       ELSE UNCHANGED <<pending, calls>>
    /\ UNCHANGED <<variant, features, now, isActive, responseProcessor, drainDue, intensity,
                   lastResponseTime, conversationHistory, recentEvents,
                   responseQueue, unhandled, lastSettled, clientVars, observerVars, clipperVars,
                   call>>
    /\ UNCHANGED moduleVars

\* processGameplayEvent(event): queues the event, active or not
ProcessGameplayEventApiFree(event) ==
    /\ variant = "apifree"
    /\ triggers < MaxTriggers
    /\ triggers' = triggers + 1
    /\ responseQueue' = queueGameplayResponse(responseQueue, event)
    /\ UNCHANGED <<variant, features, now, isActive, responseProcessor, drainDue, intensity,
                   lastResponseTime, conversationHistory, recentEvents, pending,
                   calls, unhandled, lastSettled, clientVars, observerVars, clipperVars,
                   call>>
    /\ UNCHANGED moduleVars

\* What generateResponse(userPrompt, context) returns once the call has
\* settled: the cleaned text, or null.
generateResponseApiFree(outcome) ==
    IF outcome.kind = "ok" /\ outcome.text # <<>>
    THEN Str(cleanResponse(trim(outcome.text)))
    ELSE Null

\* The conversation history after generateResponse: an entry is pushed when
\* the body carried a text, whatever cleaning left of it.
historyAfterApiFree(history, prompt, outcome) ==
    IF outcome.kind = "ok" /\ outcome.text # <<>>
    THEN LET pushed == Append(history,
                 [prompt |-> prompt, response |-> cleanResponse(trim(outcome.text)),
                  timestamp |-> now])
         IN  IF Len(pushed) > apiFreeHistoryLimit THEN Tail(pushed) ELSE pushed
    ELSE history

\* The rest of processChatMessage after generateResponse returned.
chatReplyApiFree(c, outcome) ==
    LET response == generateResponseApiFree(outcome)
    IN  IF Truthy(response)
        THEN [reply |-> Str(<<"@">> \o c.username \o <<" ">> \o response.text),
              mark |-> TRUE, threw |-> FALSE]
        ELSE [reply |-> Null, mark |-> FALSE, threw |-> FALSE]

\* The rest of generateGameplayComment after generateResponse returned.
gameplayCommentApiFree(outcome) ==
    LET response == generateResponseApiFree(outcome)
    IN  IF Truthy(response)
        THEN [reply |-> response, mark |-> TRUE, threw |-> FALSE]
        ELSE [reply |-> Null, mark |-> FALSE, threw |-> FALSE]

----------------------------------------------------------------------------
(* GenerativeAI, both versions: the response queue and the settled calls *)

\* generateGameplayPrompt / the prompt of generateGameplayComment: the wording
\* is left out, the prompt is identified by the event type it is chosen for.
gameplayPrompt(event) == <<event.type>>

\* The staleness test of processResponseQueue.
\* Mutant: a queued response is never too old.
queueIsStale_never(timeDiff) == FALSE

queueIsStale(timeDiff) == timeDiff > queueMaxAge

\* Mutant: the timer callback does not run while a completion call is waiting.
DrainTick_awaitsCall ==
    /\ responseProcessor
    /\ pending = {}
    /\ drainDue
    /\ drainDue' = FALSE
    /\ IF responseQueue = <<>>
       THEN UNCHANGED <<responseQueue, pending, calls>>
       ELSE LET response == Head(responseQueue)
                event == response.event
                timeDiff == now - response.timestamp
                start == /\ pending' = pending \cup
                                {NewCall("gameplay", twitchChannels, <<>>,
                                         gameplayPrompt(event), event)}
                         /\ calls' = calls + 1
            IN  /\ responseQueue' = Tail(responseQueue)
                /\ IF queueIsStale(timeDiff)
                   THEN UNCHANGED <<pending, calls>>
                   ELSE IF variant = "grok"
                        THEN start
                        ELSE IF shouldRespondApiFree([type |-> "gameplay",
                                                      intensity |-> event.intensity])
                             THEN start
                             ELSE UNCHANGED <<pending, calls>>
    /\ UNCHANGED <<variant, features, now, isActive, responseProcessor, intensity,
                   lastResponseTime, conversationHistory, recentEvents, triggers,
                   unhandled, lastSettled, clientVars, observerVars, clipperVars,
                   call>>
    /\ UNCHANGED moduleVars

\* processResponseQueue(), run by the timer, up to the completion call
DrainTick ==
    /\ responseProcessor
    /\ drainDue
    /\ drainDue' = FALSE
    /\ IF responseQueue = <<>>
       THEN UNCHANGED <<responseQueue, pending, calls>>
       ELSE LET response == Head(responseQueue)
                event == response.event
                timeDiff == now - response.timestamp
                start == /\ pending' = pending \cup
                                {NewCall("gameplay", twitchChannels, <<>>,
                                         gameplayPrompt(event), event)}
                         /\ calls' = calls + 1
            IN  /\ responseQueue' = Tail(responseQueue)
                /\ IF queueIsStale(timeDiff)
                   THEN UNCHANGED <<pending, calls>>
                   ELSE IF variant = "grok"
                        THEN start
                        ELSE IF shouldRespondApiFree([type |-> "gameplay",
                                                      intensity |-> event.intensity])
                             THEN start
                             ELSE UNCHANGED <<pending, calls>>
    /\ UNCHANGED <<variant, features, now, isActive, responseProcessor, intensity,
                   lastResponseTime, conversationHistory, recentEvents, triggers,
                   unhandled, lastSettled, clientVars, observerVars, clipperVars,
                   call>>
    /\ UNCHANGED moduleVars

\* the effect of the code that runs after the await, by version and path
settled(c, outcome) ==
    IF variant = "grok"
    THEN IF c.path = "chat" THEN generateResponse(outcome)
         ELSE generateGameplayComment(outcome)
    ELSE IF c.path = "chat" THEN chatReplyApiFree(c, outcome)
         ELSE gameplayCommentApiFree(outcome)

\* The completion call c settles with outcome and the handler runs to its end.
Settle(c, outcome) ==
    /\ c \in pending
    /\ pending' = pending \ {c}
    /\ LET effect == settled(c, outcome)
       IN  /\ chatLog' = IF Truthy(effect.reply)
                         THEN say(chatLog, c.channels, effect.reply.text, c)
                         ELSE chatLog
           /\ lastResponseTime' = IF effect.mark THEN now ELSE lastResponseTime
           /\ unhandled' = (unhandled \/ effect.threw)
    /\ lastSettled' = [id |-> c.id, path |-> c.path, kind |-> outcome.kind]
    /\ conversationHistory' =
           IF variant = "apifree"
           THEN historyAfterApiFree(conversationHistory, c.message, outcome)
           ELSE conversationHistory
    /\ UNCHANGED <<variant, features, now, isActive, responseProcessor, drainDue, intensity,
                   recentEvents, responseQueue, triggers, calls, client,
                   isConnected, observerVars, clipperVars,
                   call>>
    /\ UNCHANGED moduleVars

----------------------------------------------------------------------------
(* Specification of the response engine with its chat transport *)

NoDirectCall == [op |-> "none"]

InitClient ==
    /\ client = FALSE
    /\ isConnected = FALSE
    /\ chatLog = <<>>

\* the counters as the constructor and reset() set them
NoGameplay == [kills |-> 0, deaths |-> 0, wins |-> 0, losses |-> 0,
               combos |-> 0, rareAchievements |-> 0]

InitObserver(configured) ==
    /\ sensitivity = OrDefault(configured)
    /\ gameplayData = NoGameplay
    /\ criticalMoments = <<>>
    /\ emitted = <<>>
    /\ isObserving = FALSE
    /\ analysisInterval = FALSE
    /\ analysisDue = FALSE
    /\ listeners = NoListeners

\* new AutoClipper(config); has is whether both credentials are in the
\* environment
InitClipper(has) ==
    /\ clipActive = FALSE
    /\ clipDue = FALSE
    /\ credentials = has
    /\ clipQueue = <<>>
    /\ recentClips = <<>>
    /\ lastClipTime = 0
    /\ clipPending = {}
    /\ clipSeq = 0
    /\ clipLog = <<>>
    /\ clipTicks = 0

\* new ReactiveResponses(config, twitchClient, memoryManager, generativeAI)
InitReactive ==
    /\ reactiveActive = FALSE
    /\ reactiveLast = 0
    /\ reactivePending = {}
    /\ reactiveSeen = 0

\* new RecurringMessages(config, twitchClient, memoryManager, generativeAI)
InitRecurring ==
    /\ recurringActive = FALSE
    /\ recurringTimer = 0
    /\ timeouts = {}
    /\ timeoutSeq = 0
    /\ lastChatActivity = now
    /\ messageIndex = 0

\* new WebPanel(bot, config), with the secret and the environment it finds
NoResponse == [method |-> "none", route |-> "none", key |-> "", body |-> "none",
               status |-> 0, handled |-> FALSE]
InitPanel(secret, inProduction) ==
    /\ panelSecret = secret
    /\ production = inProduction
    /\ bannedList = bannedWords
    /\ panelSeen = 0
    /\ lastResponse = NoResponse

\* The modules around the pipeline when a run starts: a component that starts
\* active was activated once, so it holds the handle of its one timer.
InitModules ==
    /\ clipProcessor = clipActive
    /\ timers = [c \in Components |->
                    IF \/ c = "engine" /\ responseProcessor
                       \/ c = "observer" /\ analysisInterval
                       \/ c = "clipper" /\ clipActive
                    THEN 1 ELSE 0]
    /\ booted = features
    /\ commandsClipper = FALSE
    /\ inbox = <<>>
    /\ InitReactive
    /\ InitRecurring
    /\ InitPanel("", FALSE)

InitEngine(configured) ==
    /\ now = StartTime
    /\ isActive = FALSE
    /\ responseProcessor = FALSE
    /\ drainDue = FALSE
    /\ intensity = OrDefault(configured)
    /\ lastResponseTime = 0
    /\ conversationHistory = <<>>
    /\ recentEvents = <<>>
    /\ responseQueue = <<>>
    /\ pending = {}
    /\ triggers = 0
    /\ calls = 0
    /\ unhandled = FALSE
    /\ lastSettled = [id |-> 0, path |-> "none", kind |-> "none"]

Init ==
    /\ variant \in Variants
    /\ features = AllFeatures
    /\ \E configured \in ConfigIntensities : InitEngine(configured)
    /\ InitClient
    /\ InitObserver(Half)
    /\ InitClipper(FALSE)
    /\ call = NoDirectCall
    /\ InitModules

\* index.js creates and activates the engine after connect() has returned
\* (initializeChatLayer, then initializeGenerativeAILayer), so the engine's
\* operations run with the tmi client in place.
Next ==
    \/ Connect
    \/ OnDisconnected
    \/ client /\ Activate
    \/ client /\ Deactivate
    \/ client /\ Advance
    \/ client /\ \E ch \in ChatChannels, u \in Userstates, m \in ChatInputs,
                    r \in RandomDraws : ProcessChatMessage(ch, u, m, r)
    \/ client /\ \E e \in GameplayInputs :
                    ProcessGameplayEvent([e EXCEPT !.timestamp = now])
    \/ client /\ \E u \in Userstates, m \in ChatInputs :
                    ProcessChatMessageApiFree(u.username, m, u)
    \/ client /\ \E e \in GameplayInputs :
                    ProcessGameplayEventApiFree([e EXCEPT !.timestamp = now])
    \/ client /\ DrainTick
    \/ client /\ \E c \in pending, o \in Outcomes : Settle(c, o)

Spec == Init /\ [][Next]_vars


----------------------------------------------------------------------------
(* Specification of the engine in a steady environment: the transport stays *)
(* connected and the engine, once activated, stays active; one mention and  *)
(* one gameplay event are the triggers.                                     *)

SteadyChat == {<<"B", "O">>}
\* what the completion service answers with where its answers do not matter
SteadyOutcomes == {[kind |-> "ok", text |-> <<"o", "k">>],
                   [kind |-> "timeout", text |-> <<>>]}
SteadyEvents == {[type |-> "kill", intensity |-> 90, timestamp |-> 0]}

NextSteady ==
    \/ Connect
    \/ client /\ Activate
    \/ client /\ Advance
    \/ client /\ \E ch \in ChatChannels, u \in Userstates, m \in SteadyChat,
                    r \in RandomDraws : ProcessChatMessage(ch, u, m, r)
    \/ client /\ \E e \in SteadyEvents :
                    ProcessGameplayEvent([e EXCEPT !.timestamp = now])
    \/ client /\ \E u \in Userstates, m \in SteadyChat :
                    ProcessChatMessageApiFree(u.username, m, u)
    \/ client /\ \E e \in SteadyEvents :
                    ProcessGameplayEventApiFree([e EXCEPT !.timestamp = now])
    \/ client /\ DrainTick
    \/ client /\ \E c \in pending, o \in Outcomes : Settle(c, o)

SpecSteady == Init /\ [][NextSteady]_vars


----------------------------------------------------------------------------
(* Specification of the decision functions: the engine state is drawn from  *)
(* the values the setters and the reply path can leave behind, and the      *)
(* decision functions are called on every short message.  A run makes one   *)
(* direct call: the functions are pure, so a second call adds nothing.      *)

\* configured intensities (a configured 0 is replaced by the default)
DecideIntensities == {0, 1, 50, 99, 100}
\* values lastResponseTime can hold at time now: never set, or set by a reply
\* this long ago
SinceLast == {0, drainInterval, minResponseInterval - 1, minResponseInterval,
              minResponseInterval + drainInterval}
Messages == StringsUpTo(MaxMsgLen) \ {<<>>}
EventDatas == {[type |-> t, intensity |-> i] :
                  t \in {"chat", "chat_mention", "gameplay"}, i \in {0, 10, 50, 90}}

InitDecide ==
    /\ variant \in Variants
    /\ features = AllFeatures
    /\ now = StartTime
    /\ isActive \in BOOLEAN
    /\ responseProcessor = isActive
    /\ drainDue = FALSE
    /\ intensity \in {OrDefault(x) : x \in DecideIntensities}
    /\ lastResponseTime \in {0} \cup {now - d : d \in SinceLast}
    /\ conversationHistory = <<>>
    /\ recentEvents = <<>>
    /\ responseQueue = <<>>
    /\ pending = {}
    /\ triggers = 0
    /\ calls = 0
    /\ unhandled = FALSE
    /\ lastSettled = [id |-> 0, path |-> "none", kind |-> "none"]
    /\ client = TRUE
    /\ isConnected = TRUE
    /\ chatLog = <<>>
    /\ InitObserver(Half)
    /\ InitClipper(FALSE)
    /\ call = NoDirectCall
    /\ InitModules

\* shouldRespond(message, userstate) of the Grok version, called directly
CallShouldRespond(message, random) ==
    /\ call = NoDirectCall
    /\ variant = "grok"
    /\ call' = [op |-> "shouldRespond", message |-> message, random |-> random,
                ret |-> shouldRespond(message, random)]
    /\ UNCHANGED <<engineVars, clientVars, observerVars, clipperVars>>
    /\ UNCHANGED moduleVars

\* shouldRespond(eventData) of the ApiFreeLLM version, called directly
CallShouldRespondApiFree(eventData) ==
    /\ call = NoDirectCall
    /\ variant = "apifree"
    /\ call' = [op |-> "shouldRespondApiFree", eventData |-> eventData,
                ret |-> shouldRespondApiFree(eventData)]
    /\ UNCHANGED <<engineVars, clientVars, observerVars, clipperVars>>
    /\ UNCHANGED moduleVars

\* the decision processChatMessage of the ApiFreeLLM version takes on a message
CallChatDecisionApiFree(message) ==
    /\ call = NoDirectCall
    /\ variant = "apifree"
    /\ isActive
    /\ call' = [op |-> "chatDecisionApiFree", message |-> message,
                ret |-> chatDecisionApiFree(message)]
    /\ UNCHANGED <<engineVars, clientVars, observerVars, clipperVars>>
    /\ UNCHANGED moduleVars

NextDecide ==
    \/ call = NoDirectCall /\ \E m \in Messages, r \in RandomDraws :
                                 CallShouldRespond(m, r)
    \/ call = NoDirectCall /\ \E e \in EventDatas : CallShouldRespondApiFree(e)
    \/ call = NoDirectCall /\ \E m \in Messages : CallChatDecisionApiFree(m)
    \/ call = NoDirectCall /\ \E x \in IntensityInputs : UpdateIntensity(x)

SpecDecide == InitDecide /\ [][NextDecide]_vars

----------------------------------------------------------------------------
(* Specification of the response queue with a backlog: gameplay events were *)
(* queued, the engine was deactivated for about a minute and activated      *)
(* again, and the run starts with the queue that is left.                   *)

\* how long ago the events of the backlog were queued
BacklogAges == {queueMaxAge - drainInterval, queueMaxAge, queueMaxAge + drainInterval}
BacklogEvent(age) == [type |-> "kill", intensity |-> 90, timestamp |-> StartTime - age]
\* the ages of a backlog of one or two events, oldest first
Backlogs ==
    {<<a>> : a \in BacklogAges}
        \cup {<<p[1], p[2]>> : p \in {q \in BacklogAges \X BacklogAges : q[2] <= q[1]}}
\* the response queueGameplayResponse queued that long ago
BacklogResponse(age) ==
    [queueGameplayResponse(<<>>, BacklogEvent(age))[1]
        EXCEPT !.timestamp = StartTime - age]

InitBacklog ==
    /\ variant \in Variants
    /\ features = AllFeatures
    /\ now = StartTime
    /\ isActive = TRUE
    /\ responseProcessor = TRUE
    /\ drainDue = FALSE
    /\ intensity = Half
    /\ lastResponseTime = 0
    /\ conversationHistory = <<>>
    /\ \E backlog \in Backlogs :
           /\ responseQueue = [i \in 1..Len(backlog) |-> BacklogResponse(backlog[i])]
           /\ recentEvents =
                  IF variant = "grok"
                  THEN [i \in 1..Len(backlog) |->
                           [type |-> BacklogEvent(backlog[i]).type,
                            intensity |-> BacklogEvent(backlog[i]).intensity,
                            timestamp |-> StartTime - backlog[i]]]
                  ELSE <<>>
           /\ triggers = Len(backlog)
    /\ pending = {}
    /\ calls = 0
    /\ unhandled = FALSE
    /\ lastSettled = [id |-> 0, path |-> "none", kind |-> "none"]
    /\ client = TRUE
    /\ isConnected = TRUE
    /\ chatLog = <<>>
    /\ InitObserver(Half)
    /\ InitClipper(FALSE)
    /\ call = NoDirectCall
    /\ InitModules

NextBacklog ==
    \/ Advance
    \/ \E e \in SteadyEvents : ProcessGameplayEvent([e EXCEPT !.timestamp = now])
    \/ \E e \in SteadyEvents : ProcessGameplayEventApiFree([e EXCEPT !.timestamp = now])
    \/ DrainTick
    \/ \E c \in pending, o \in Outcomes : Settle(c, o)

SpecBacklog == InitBacklog /\ [][NextBacklog]_vars

----------------------------------------------------------------------------
(* StreamObserver *)

\* Mutant: a kill of intensity exactly 0.8 is clip-worthy.
shouldCreateClip_killAtThreshold(event) ==
    LET intensityThreshold == sensitivity
    IN  IF event.type = "rare_achievement" THEN TRUE
        ELSE IF event.type = "win" /\ event.intensity > 70 THEN TRUE
        ELSE IF event.type = "combo" /\ event.intensity > intensityThreshold THEN TRUE
        ELSE IF event.type = "kill" /\ event.intensity >= 80 THEN TRUE
        ELSE FALSE

\* shouldCreateClip(event)
shouldCreateClip(event) ==
    LET intensityThreshold == sensitivity
    IN  IF event.type = "rare_achievement" THEN TRUE
        ELSE IF event.type = "win" /\ event.intensity > 70 THEN TRUE
        ELSE IF event.type = "combo" /\ event.intensity > intensityThreshold THEN TRUE
        ELSE IF event.type = "kill" /\ event.intensity > 80 THEN TRUE
        ELSE FALSE

\* Mutant: a loss is not counted.
updateGameplayStats_noLoss(data, event) ==
    CASE event.type = "kill" -> [data EXCEPT !.kills = @ + 1]
      [] event.type = "death" -> [data EXCEPT !.deaths = @ + 1]
      [] event.type = "win" -> [data EXCEPT !.wins = @ + 1]
      [] event.type = "combo" -> [data EXCEPT !.combos = @ + 1]
      [] event.type = "rare_achievement" -> [data EXCEPT !.rareAchievements = @ + 1]
      [] OTHER -> data

\* updateGameplayStats(event)
updateGameplayStats(data, event) ==
    CASE event.type = "kill" -> [data EXCEPT !.kills = @ + 1]
      [] event.type = "death" -> [data EXCEPT !.deaths = @ + 1]
      [] event.type = "win" -> [data EXCEPT !.wins = @ + 1]
      [] event.type = "loss" -> [data EXCEPT !.losses = @ + 1]
      [] event.type = "combo" -> [data EXCEPT !.combos = @ + 1]
      [] event.type = "rare_achievement" -> [data EXCEPT !.rareAchievements = @ + 1]
      [] OTHER -> data

\* generateClipTitle(event): the wording is left out, the title is identified
\* by the row of the table it is drawn from.
generateClipTitle(event) ==
    IF event.type \in {"kill", "win", "combo", "rare_achievement"}
    THEN <<event.type>> ELSE <<"epic">>

\* the critical moment addCriticalMoment(event) builds
criticalMoment(event) ==
    [id |-> now, event |-> event, clipWorthy |-> TRUE,
     timestamp |-> event.timestamp, title |-> generateClipTitle(event)]

\* Mutant: a full list drops the new moment instead of the oldest.
addCriticalMoment_dropsNewest(moments, event) ==
    LET pushed == Append(moments, criticalMoment(event))
    IN  IF Len(pushed) > momentsLimit THEN moments ELSE pushed

\* addCriticalMoment(event): the list afterwards
addCriticalMoment(moments, event) ==
    LET pushed == Append(moments, criticalMoment(event))
    IN  IF Len(pushed) > momentsLimit THEN Tail(pushed) ELSE pushed

\* emit(topic, ...): the call, with the listeners it runs, in order
emit(topic, event) ==
    [topic |-> topic, type |-> event.type, intensity |-> event.intensity,
     id |-> now, called |-> listeners[topic]]

\* processGameplayEvent(event) of the observer: statistics, critical moment,
\* and the events emitted to the listeners, in order
observeGameplayEvent(event) ==
    /\ gameplayData' = updateGameplayStats(gameplayData, event)
    /\ IF shouldCreateClip(event)
       THEN /\ criticalMoments' = addCriticalMoment(criticalMoments, event)
            /\ emitted' = emitted \o
                   <<emit("criticalMoment", event), emit("gameplayEvent", event)>>
       ELSE /\ criticalMoments' = criticalMoments
            /\ emitted' = Append(emitted, emit("gameplayEvent", event))
    /\ UNCHANGED <<sensitivity, observingVars>>

\* processGameplayEvent(event) with no listener registered
ObserveGameplayEvent(event) ==
    /\ Len(emitted) < 2 * MaxObserved
    /\ observeGameplayEvent(event)
    /\ UNCHANGED <<engineVars, clientVars, clipperVars, call>>
    /\ UNCHANGED moduleVars

\* startObserving()
StartObserving ==
    /\ ~isObserving
    /\ isObserving' = TRUE
    /\ analysisInterval' = TRUE
    /\ timers' = setInterval(timers, "observer")
    /\ analysisDue' = FALSE
    /\ UNCHANGED <<clipProcessor, aroundVars>>
    /\ UNCHANGED <<sensitivity, gameplayData, criticalMoments, emitted, listeners,
                   engineVars, clientVars, clipperVars, call>>

\* stopObserving()
StopObserving ==
    /\ isObserving
    /\ isObserving' = FALSE
    /\ analysisInterval' = FALSE
    /\ timers' = IF analysisInterval THEN clearInterval(timers, "observer") ELSE timers
    /\ analysisDue' = FALSE
    /\ UNCHANGED <<clipProcessor, aroundVars>>
    /\ UNCHANGED <<sensitivity, gameplayData, criticalMoments, emitted, listeners,
                   engineVars, clientVars, clipperVars, call>>

\* updateSensitivity(sensitivity)
UpdateSensitivity(x) ==
    /\ sensitivity' = clamp(x)
    /\ UNCHANGED <<gameplayData, criticalMoments, emitted, observingVars, engineVars, clientVars,
                   clipperVars, call>>
    /\ UNCHANGED moduleVars

\* shouldCreateClip(event), called directly
CallShouldCreateClip(event) ==
    /\ call = NoDirectCall
    /\ call' = [op |-> "shouldCreateClip", event |-> event,
                sensitivity |-> sensitivity, ret |-> shouldCreateClip(event)]
    /\ UNCHANGED <<engineVars, clientVars, observerVars, clipperVars>>
    /\ UNCHANGED moduleVars

----------------------------------------------------------------------------
(* Specification of the stream observer *)

ConfigSensitivities == {0, 50}
SensitivityInputs == {-10, 40, 60, 110}
ClipEvents == {[type |-> t, intensity |-> i, timestamp |-> StartTime] :
                  t \in EventTypes, i \in EventIntensities}
ObservedEvents == {[type |-> "kill", intensity |-> 81, timestamp |-> StartTime],
                   [type |-> "combo", intensity |-> 50, timestamp |-> StartTime],
                   [type |-> "death", intensity |-> 60, timestamp |-> StartTime]}

InitObserve ==
    /\ variant = "grok"
    /\ features = AllFeatures
    /\ InitEngine(0)
    /\ InitClient
    /\ \E configured \in ConfigSensitivities : InitObserver(configured)
    /\ InitClipper(FALSE)
    /\ call = NoDirectCall
    /\ InitModules

NextObserve ==
    \/ \E x \in SensitivityInputs : UpdateSensitivity(x)
    \/ \E e \in ObservedEvents : ObserveGameplayEvent(e)
    \/ call = NoDirectCall /\ \E e \in ClipEvents : CallShouldCreateClip(e)

SpecObserve == InitObserve /\ [][NextObserve]_vars


----------------------------------------------------------------------------
(* Specification of the critical-moment list: the observer processes one    *)
(* clip-worthy event after another while the clock advances, until the list *)
(* has been full and has evicted.                                           *)

MaxMoments == 51            \* critical moments added in a run

\* getCriticalMoments(limit): this.criticalMoments.slice(-limit)
getCriticalMoments(moments, limit) ==
    LET n == Len(moments)
        from == IF limit = 0 THEN 1
                ELSE IF limit > 0 THEN Max(n - limit, 0) + 1
                ELSE Min(-limit, n) + 1
    IN  SubSeq(moments, from, n)

WorthyEvents == {[type |-> "rare_achievement", intensity |-> 99, timestamp |-> 0]}

\* processGameplayEvent(event) for a clip-worthy event
ObserveMoment(event) ==
    /\ Len(emitted) < 2 * MaxMoments
    /\ shouldCreateClip(event)
    /\ observeGameplayEvent(event)
    /\ UNCHANGED <<engineVars, clientVars, clipperVars, call, moduleVars>>

InitMoments ==
    /\ variant = "grok"
    /\ features = AllFeatures
    /\ InitEngine(0)
    /\ InitClient
    /\ InitObserver(Half)
    /\ InitClipper(FALSE)
    /\ call = NoDirectCall
    /\ InitModules

NextMoments ==
    \/ Advance
    \/ \E e \in WorthyEvents : ObserveMoment([e EXCEPT !.timestamp = now])

SpecMoments == InitMoments /\ [][NextMoments]_vars

----------------------------------------------------------------------------
(* Specification of the settings: the engine and the observer are built     *)
(* from the configured values, then the control panel updates them.         *)

\* configured and posted values, in hundredths
SettingValues == {-20, 0, 37, 100, 130}

\* the last request of the control panel: the value posted and the settings
\* before it
NoRequest ==
    [op |-> "none", arg |-> 0, intensityBefore |-> 0, sensitivityBefore |-> 0]

Requested(op, x) ==
    [op |-> op, arg |-> x, intensityBefore |-> intensity,
     sensitivityBefore |-> sensitivity]

\* POST /api/ai/intensity: generativeAI.updateIntensity(intensity)
PostIntensity(x) ==
    /\ intensity' = clamp(x)
    /\ call' = Requested("updateIntensity", x)
    /\ UNCHANGED <<variant, features, now, isActive, responseProcessor, drainDue,
                   lastResponseTime, conversationHistory, recentEvents,
                   responseQueue, pending, triggers, calls, unhandled,
                   lastSettled, clientVars, observerVars, clipperVars>>
    /\ UNCHANGED moduleVars

\* POST /api/observer/sensitivity: streamObserver.updateSensitivity(sensitivity)
PostSensitivity(x) ==
    /\ sensitivity' = clamp(x)
    /\ call' = Requested("updateSensitivity", x)
    /\ UNCHANGED <<gameplayData, criticalMoments, emitted, observingVars, engineVars, clientVars,
                   clipperVars>>
    /\ UNCHANGED moduleVars

\* updateConfig(newConfig), newConfig.ai carrying the same value for both
\* settings
UpdateConfig(x) ==
    /\ intensity' = clamp(x)
    /\ sensitivity' = clamp(x)
    /\ call' = Requested("updateConfig", x)
    /\ UNCHANGED <<variant, features, now, isActive, responseProcessor, drainDue,
                   lastResponseTime, conversationHistory, recentEvents,
                   responseQueue, pending, triggers, calls, unhandled,
                   lastSettled, clientVars, gameplayData, criticalMoments,
                   emitted, observingVars, clipperVars>>
    /\ UNCHANGED moduleVars

InitSettings ==
    /\ variant \in Variants
    /\ features = AllFeatures
    /\ \E configured \in SettingValues : InitEngine(configured)
    /\ InitClient
    /\ \E configured \in SettingValues : InitObserver(configured)
    /\ InitClipper(FALSE)
    /\ call = NoRequest
    /\ InitModules

NextSettings ==
    \/ \E x \in SettingValues : PostIntensity(x)
    \/ \E x \in SettingValues : PostSensitivity(x)
    \/ \E x \in SettingValues : UpdateConfig(x)

SpecSettings == InitSettings /\ [][NextSettings]_vars

----------------------------------------------------------------------------
(* Specification of the detector: every period of the analysis timer the    *)
(* observer simulates the events of the period and processes them; it is    *)
(* started, stopped and reset, and while it is stopped events are handed to *)
(* processGameplayEvent directly.                                           *)

\* thresholds of simulateGameplayEvents on its random number, in thousandths
killChance == 100
deathChance == 50
winChance == 20
comboChance == 30
rareChance == 10

DetectorTypes == {"kill", "death", "win", "combo", "rare_achievement"}

\* Math.random() of simulateGameplayEvents, in thousandths: one value of
\* every interval the thresholds cut [0, 1) into
DetectorDraws == {0, 10, 20, 30, 50, 100, 999}
\* Math.random() of an event's intensity, in hundredths
IntensityDraws == {0, 99}
\* the numbers drawn for the intensities of the events of one tick, by type
IntensityVectors == {[t \in DetectorTypes |-> u] : u \in IntensityDraws}

\* simulateGameplayEvents(): random is the number drawn first, us[type] the
\* number drawn for the intensity of the event of that type
simulateGameplayEvents(random, us) ==
    (IF random < killChance
     THEN <<[type |-> "kill", intensity |-> (us["kill"] * 80) \div 100 + 20,
             timestamp |-> now]>> ELSE <<>>)
    \o (IF random < deathChance
        THEN <<[type |-> "death", intensity |-> (us["death"] * 60) \div 100 + 10,
                timestamp |-> now]>> ELSE <<>>)
    \o (IF random < winChance
        THEN <<[type |-> "win", intensity |-> (us["win"] * 50) \div 100 + 50,
                timestamp |-> now]>> ELSE <<>>)
    \o (IF random < comboChance
        THEN <<[type |-> "combo", intensity |-> (us["combo"] * 70) \div 100 + 30,
                timestamp |-> now]>> ELSE <<>>)
    \o (IF random < rareChance
        THEN <<[type |-> "rare_achievement",
                intensity |-> (us["rare_achievement"] * 30) \div 100 + 70,
                timestamp |-> now]>> ELSE <<>>)

\* the types of the events one call of simulateGameplayEvents returns
firedTypes(random) ==
    LET events == simulateGameplayEvents(random, [t \in DetectorTypes |-> 0])
    IN  {events[i].type : i \in 1..Len(events)}

\* processGameplayEvent(event) as a function of the observer's data
observed(st, event) ==
    LET heard == emit("gameplayEvent", event)
    IN  [gameplayData |-> updateGameplayStats(st.gameplayData, event),
         criticalMoments |->
             IF shouldCreateClip(event)
             THEN addCriticalMoment(st.criticalMoments, event)
             ELSE st.criticalMoments,
         emitted |->
             IF shouldCreateClip(event)
             THEN st.emitted \o <<emit("criticalMoment", event), heard>>
             ELSE Append(st.emitted, heard)]

\* events.forEach(event => this.processGameplayEvent(event))
RECURSIVE observedAll(_, _)
observedAll(st, events) ==
    IF events = <<>> THEN st
    ELSE observedAll(observed(st, Head(events)), Tail(events))

NoTick == [op |-> "none", at |-> StartTime, random |-> 0, fired |-> {}]

\* Mutant: reset() also stops the analysis timer.
Reset_stopsTimer ==
    /\ gameplayData' = NoGameplay
    /\ criticalMoments' = <<>>
    /\ call' = [NoTick EXCEPT !.op = "reset"]
    /\ analysisInterval' = FALSE
    /\ analysisDue' = FALSE
    /\ UNCHANGED <<sensitivity, emitted, isObserving, listeners,
                   engineVars, clientVars, clipperVars>>
    /\ UNCHANGED moduleVars

\* reset()
Reset ==
    /\ gameplayData' = NoGameplay
    /\ criticalMoments' = <<>>
    /\ call' = [NoTick EXCEPT !.op = "reset"]
    /\ UNCHANGED <<sensitivity, emitted, observingVars,
                   engineVars, clientVars, clipperVars>>
    /\ UNCHANGED moduleVars

\* events handed to processGameplayEvent directly: a type the simulation
\* never draws, and a type the statistics do not know
DirectEvents == {[type |-> "loss", intensity |-> 50, timestamp |-> StartTime],
                 [type |-> "assist", intensity |-> 50, timestamp |-> StartTime]}

\* analyzeGameplay(), the callback of the analysis timer: once a period
AnalyzeGameplay(random, us) ==
    /\ analysisInterval
    /\ analysisDue
    /\ analysisDue' = FALSE
    /\ LET events == simulateGameplayEvents(random, us)
           st == observedAll([gameplayData |-> gameplayData,
                              criticalMoments |-> criticalMoments,
                              emitted |-> emitted], events)
       IN  /\ gameplayData' = st.gameplayData
           /\ criticalMoments' = st.criticalMoments
           /\ emitted' = st.emitted
           /\ call' = [op |-> "analyzeGameplay", at |-> now, random |-> random,
                       fired |-> {events[i].type : i \in 1..Len(events)}]
    /\ UNCHANGED <<sensitivity, isObserving, analysisInterval, listeners,
                   engineVars, clientVars, clipperVars>>
    /\ UNCHANGED moduleVars

InitDetect ==
    /\ variant = "grok"
    /\ features = AllFeatures
    /\ InitEngine(0)
    /\ InitClient
    /\ InitObserver(Half)
    /\ InitClipper(FALSE)
    /\ call = NoTick
    /\ InitModules

NextDetect ==
    \/ StartObserving
    \/ StopObserving
    \/ Reset
    \/ ~isObserving /\ Len(emitted) < MaxObserved
           /\ \E e \in DirectEvents : ObserveGameplayEvent(e)
    \/ Advance
    \/ \E random \in DetectorDraws, us \in IntensityVectors :
           AnalyzeGameplay(random, us)

SpecDetect == InitDetect /\ [][NextDetect]_vars

----------------------------------------------------------------------------
(* AutoClipper *)

MaxClipRequests == 2    \* clip requests queued in a run
MaxClipTicks == 3       \* steps of the clock in a run
MaxLifeSteps == 4       \* clock steps and clip requests together, where both are bounded

\* The staleness test of processClipQueue.
\* Mutant: a request is never too old.
clipIsStale_never(timeDiff) == FALSE

clipIsStale(timeDiff) == timeDiff > clipMaxAge

\* shouldCreateClip(moment) of the clipper
clipperShouldCreateClip(moment) ==
    IF now - lastClipTime < clipCooldown THEN FALSE
    ELSE IF ~moment.clipWorthy THEN FALSE
    ELSE IF moment.event.intensity < clipMinIntensity THEN FALSE
    ELSE TRUE

\* toLocaleTimeString('pt-BR', {hour, minute}) of the current time: the
\* minute of the day
clockLabel(t) == (t \div 60000) % 1440

\* generateClipTitle(moment) of the clipper: `${baseTitle} - ${timestamp}`
clipperGenerateClipTitle(moment) ==
    [base |-> IF moment.title = <<>> THEN <<"epic">> ELSE moment.title,
     stamp |-> clockLabel(now)]

\* Mutant: the request is queued with the title left out.
queueClip_untitled(queue, moment) ==
    Append(queue, [serial |-> clipSeq + 1, moment |-> [moment EXCEPT !.title = <<>>],
                   timestamp |-> now, title |-> clipperGenerateClipTitle(moment),
                   processed |-> FALSE])

\* queueClip(moment): the queue afterwards.  serial numbers the requests.
queueClip(queue, moment) ==
    Append(queue, [serial |-> clipSeq + 1, moment |-> moment,
                   timestamp |-> now, title |-> clipperGenerateClipTitle(moment),
                   processed |-> FALSE])

\* the moment createManualClip(title) builds
manualMoment(title) ==
    [id |-> now, title |-> title, clipWorthy |-> TRUE,
     event |-> [type |-> "manual", intensity |-> Unit, timestamp |-> now],
     timestamp |-> now]

\* registerClip(clipInfo, clipData): recentClips afterwards
registerClip(clips, clipData, simulated) ==
    LET pushed == Append(clips, [serial |-> clipData.serial, title |-> clipData.title,
                                 moment |-> clipData.moment, createdAt |-> now,
                                 simulated |-> simulated])
    IN  IF Len(pushed) > clipsLimit THEN Tail(pushed) ELSE pushed

\* The 'clipCreated' listener of index.js: a clip that is not simulated is
\* announced in every channel.
announceClip(log, clipData, simulated) ==
    IF ~simulated /\ client /\ isConnected
    THEN log \o [i \in 1..Len(twitchChannels) |->
                    [kind |-> "clip", call |-> NoCall, at |-> now,
                     text |-> clipData.title.base, channel |-> twitchChannels[i],
                     active |-> isActive]]
    ELSE log

Logged(kind, clipData, simulated) ==
    [kind |-> kind, serial |-> clipData.serial, at |-> now,
     enqueuedAt |-> clipData.timestamp, simulated |-> simulated,
     active |-> clipActive,
     manual |-> clipData.moment.event.type = "manual",
     title |-> clipData.moment.title,
     intensity |-> clipData.moment.event.intensity]

\* activate() of the clipper
ClipActivate ==
    /\ ~clipActive
    /\ clipActive' = TRUE
    /\ clipProcessor' = TRUE
    /\ timers' = setInterval(timers, "clipper")
    /\ clipDue' = FALSE
    /\ UNCHANGED aroundVars
    /\ UNCHANGED <<credentials, clipQueue, recentClips, lastClipTime, clipPending,
                   clipSeq, clipLog, engineVars, clientVars, observerVars, clipTicks, call>>

\* deactivate() of the clipper
ClipDeactivate ==
    /\ clipActive
    /\ clipActive' = FALSE
    /\ clipProcessor' = FALSE
    /\ timers' = IF clipProcessor THEN clearInterval(timers, "clipper") ELSE timers
    /\ clipDue' = FALSE
    /\ UNCHANGED aroundVars
    /\ UNCHANGED <<credentials, clipQueue, recentClips, lastClipTime, clipPending,
                   clipSeq, clipLog, engineVars, clientVars, observerVars, clipTicks, call>>

\* durations the pipeline is left idle for
IdleDurations == {clipMaxAge - clipPeriod, clipMaxAge}

\* Time passes: one period of the clip processor while its timer is live
\* (the callback then runs before the next period), any of the durations
\* while it is not.
ClipElapse(d) ==
    /\ ~clipDue
    /\ IF clipActive THEN d = clipPeriod ELSE d \in IdleDurations
    /\ clipTicks < MaxClipTicks
    /\ clipTicks' = clipTicks + 1
    /\ now' = now + d
    /\ clipDue' = clipActive
    /\ drainDue' = responseProcessor
    /\ UNCHANGED <<variant, features, isActive, responseProcessor, intensity,
                   lastResponseTime, conversationHistory, recentEvents,
                   responseQueue, pending, triggers, calls, unhandled,
                   lastSettled, clientVars, observerVars, clipActive, credentials,
                   clipQueue, recentClips, lastClipTime, clipPending, clipSeq,
                   clipLog, call>>
    /\ UNCHANGED moduleVars

\* createManualClip(title)
CreateManualClip(title) ==
    /\ clipSeq < MaxClipRequests
    /\ clipQueue' = queueClip(clipQueue, manualMoment(title))
    /\ clipSeq' = clipSeq + 1
    /\ clipLog' = Append(clipLog,
           Logged("manual", [serial |-> clipSeq + 1, timestamp |-> now,
                             moment |-> manualMoment(title)], FALSE))
    /\ UNCHANGED <<clipActive, clipDue, credentials, recentClips, lastClipTime,
                   clipPending, engineVars, clientVars, observerVars, clipTicks, call>>
    /\ UNCHANGED moduleVars

\* processGameplayEvent(event) of the observer with the listener of index.js
\* registered: a critical moment is handed to processCriticalMoment(moment)
\* of the clipper.
ObserveForClipper(event) ==
    /\ clipSeq < MaxClipRequests
    /\ observeGameplayEvent(event)
    /\ LET moment == criticalMoment(event)
           worthy == shouldCreateClip(event)
           request == queueClip(clipQueue, moment)[Len(clipQueue) + 1]
           seen == IF worthy
                   THEN Append(clipLog, Logged("worthy", request, FALSE))
                   ELSE clipLog
       IN  IF worthy /\ clipActive /\ clipperShouldCreateClip(moment)
           THEN /\ clipQueue' = queueClip(clipQueue, moment)
                /\ clipLog' = Append(seen, Logged("queued", request, FALSE))
           ELSE /\ clipQueue' = clipQueue
                /\ clipLog' = seen
    /\ clipSeq' = clipSeq + 1
    /\ UNCHANGED <<clipActive, clipDue, credentials, recentClips, lastClipTime,
                   clipPending, engineVars, clientVars, clipTicks, call>>
    /\ UNCHANGED moduleVars


\* emit('clipCreated', clip) of the clipper: the emission is logged.
\* Mutant: simulated clips are not emitted.
emitClipCreated_realOnly(log, clipData, simulated) ==
    IF simulated THEN log ELSE Append(log, Logged("clipCreated", clipData, simulated))

emitClipCreated(log, clipData, simulated) ==
    Append(log, Logged("clipCreated", clipData, simulated))

\* The 'clipCreated' listener of index.js throws when it announces a clip
\* and the bot has no twitchClient (the chat layer is not enabled).
listenerThrows(simulated) == ~simulated /\ "chatCommands" \notin features

\* the log after registerClip(clipInfo, clipData): the push, then the emit
registration(log, clipData, simulated) ==
    emitClipCreated(Append(log, Logged("registered", clipData, simulated)),
                    clipData, simulated)

\* simulateClipCreation(clipData), and the success branch of createClip:
\* the clip is registered, its listeners run, lastClipTime is set.  When the
\* listener throws out of registerClip, inside the try block of createClip,
\* the catch block calls simulateClipCreation for the same request.
clipRegistered(log, clipData, simulated) ==
    LET thrown == listenerThrows(simulated)
        first == registerClip(recentClips, clipData, simulated)
        logged == registration(log, clipData, simulated)
    IN  /\ recentClips' = IF thrown THEN registerClip(first, clipData, TRUE) ELSE first
        /\ clipLog' = IF thrown THEN registration(logged, clipData, TRUE) ELSE logged
        /\ chatLog' = announceClip(chatLog, clipData, simulated)
        /\ lastClipTime' = now
        /\ UNCHANGED <<client, isConnected>>

\* Mutant: the timer callback does not run while a createClip call is waiting.
ProcessClipQueue_awaitsCall ==
    /\ clipDue
    /\ clipPending = {}
    /\ clipDue' = FALSE
    /\ IF clipQueue = <<>>
       THEN UNCHANGED <<clipQueue, recentClips, lastClipTime, clipPending, clipLog,
                        clientVars>>
       ELSE LET clipData == Head(clipQueue)
                timeDiff == now - clipData.timestamp
                taken == Append(clipLog, Logged("dequeued", clipData, FALSE))
            IN  /\ clipQueue' = Tail(clipQueue)
                /\ IF clipIsStale(timeDiff)
                   THEN /\ clipLog' = taken
                        /\ UNCHANGED <<recentClips, lastClipTime, clipPending,
                                       clientVars>>
                   ELSE IF ~credentials
                   THEN /\ clipRegistered(taken, clipData, TRUE)
                        /\ UNCHANGED clipPending
                   ELSE /\ clipPending' = clipPending \cup
                               {[clipData |-> clipData, stage |-> "lookup"]}
                        /\ clipLog' = taken
                        /\ UNCHANGED <<recentClips, lastClipTime, clientVars>>
    /\ UNCHANGED <<clipActive, credentials, clipSeq, engineVars, observerVars, clipTicks, call>>
    /\ UNCHANGED moduleVars

\* processClipQueue(), the callback of the clipProcessor timer, up to the
\* first await of createClip
ProcessClipQueue ==
    /\ clipDue
    /\ clipDue' = FALSE
    /\ IF clipQueue = <<>>
       THEN UNCHANGED <<clipQueue, recentClips, lastClipTime, clipPending, clipLog,
                        clientVars>>
       ELSE LET clipData == Head(clipQueue)
                timeDiff == now - clipData.timestamp
                taken == Append(clipLog, Logged("dequeued", clipData, FALSE))
            IN  /\ clipQueue' = Tail(clipQueue)
                /\ IF clipIsStale(timeDiff)
                   THEN /\ clipLog' = taken
                        /\ UNCHANGED <<recentClips, lastClipTime, clipPending,
                                       clientVars>>
                   ELSE IF ~credentials
                   THEN /\ clipRegistered(taken, clipData, TRUE)
                        /\ UNCHANGED clipPending
                   ELSE /\ clipPending' = clipPending \cup
                               {[clipData |-> clipData, stage |-> "lookup"]}
                        /\ clipLog' = taken
                        /\ UNCHANGED <<recentClips, lastClipTime, clientVars>>
    /\ UNCHANGED <<clipActive, credentials, clipSeq, engineVars, observerVars, clipTicks, call>>
    /\ UNCHANGED moduleVars

\* createClip after getBroadcasterId() has settled: without an id it returns,
\* with one it posts the clip-creation request.
ClipLookupSettle(c, found) ==
    /\ c \in clipPending
    /\ c.stage = "lookup"
    /\ IF found
       THEN /\ clipPending' = (clipPending \ {c}) \cup {[c EXCEPT !.stage = "post"]}
            /\ clipLog' = Append(clipLog, Logged("post", c.clipData, FALSE))
       ELSE /\ clipPending' = clipPending \ {c}
            /\ clipLog' = clipLog
    /\ UNCHANGED <<clipActive, clipDue, credentials, clipQueue, recentClips,
                   lastClipTime, clipSeq, engineVars, clientVars, observerVars,
                   clipTicks, call>>
    /\ UNCHANGED moduleVars

\* What the clip-creation request can settle with.
ClipOutcomes == {"ok", "rejected", "malformed"}

\* createClip after axios.post has settled: the clip is registered, or the
\* catch block registers a simulated one.
ClipPostSettle(c, outcome) ==
    /\ c \in clipPending
    /\ c.stage = "post"
    /\ clipPending' = clipPending \ {c}
    /\ clipRegistered(clipLog, c.clipData, outcome # "ok")
    /\ UNCHANGED <<clipActive, clipDue, credentials, clipQueue, clipSeq, engineVars,
                   observerVars, clipTicks, call>>
    /\ UNCHANGED moduleVars

----------------------------------------------------------------------------
(* Specification of the clip pipeline: the stream observer and the clipper  *)
(* wired as index.js wires them, the chat transport connected, the          *)
(* generative engine not enabled.                                           *)

ManualTitles == {<<"T">>}
ClipperEvents == {[type |-> "rare_achievement", intensity |-> 99, timestamp |-> 0],
                  [type |-> "combo", intensity |-> 55, timestamp |-> 0]}

InitClip ==
    /\ variant = "grok"
    /\ features = AllFeatures
    /\ InitEngine(0)
    /\ client = TRUE
    /\ isConnected = TRUE
    /\ chatLog = <<>>
    /\ InitObserver(Half)
    /\ \E has \in BOOLEAN : InitClipper(has)
    /\ call = NoDirectCall
    /\ InitModules

NextClip ==
    \/ ClipActivate
    \/ ClipDeactivate
    \/ \E d \in IdleDurations \cup {clipPeriod} : ClipElapse(d)
    \/ \E t \in ManualTitles : CreateManualClip(t)
    \/ \E e \in ClipperEvents : ObserveForClipper([e EXCEPT !.timestamp = now])
    \/ ProcessClipQueue
    \/ \E c \in clipPending : ClipLookupSettle(c, TRUE)
    \/ \E c \in clipPending : ClipLookupSettle(c, FALSE)
    \/ \E c \in clipPending, o \in ClipOutcomes : ClipPostSettle(c, o)

SpecClip == InitClip /\ [][NextClip]_vars

----------------------------------------------------------------------------
(* Specification of the clip pipeline in a steady environment: credentials *)
(* are configured, the Twitch API answers every request, the clipper stays *)
(* active once activated, and clips are requested from the control panel.  *)

InitClipSteady ==
    /\ variant = "grok"
    /\ features = AllFeatures
    /\ InitEngine(0)
    /\ client = TRUE
    /\ isConnected = TRUE
    /\ chatLog = <<>>
    /\ InitObserver(Half)
    /\ InitClipper(TRUE)
    /\ call = NoDirectCall
    /\ InitModules

NextClipSteady ==
    \/ ClipActivate
    \/ \E d \in IdleDurations \cup {clipPeriod} : ClipElapse(d)
    \/ \E t \in ManualTitles : CreateManualClip(t)
    \/ ProcessClipQueue
    \/ \E c \in clipPending : ClipLookupSettle(c, TRUE)
    \/ \E c \in clipPending : ClipPostSettle(c, "ok")

SpecClipSteady == InitClipSteady /\ [][NextClipSteady]_vars

----------------------------------------------------------------------------
(* Specification of the clipper's requests: the bot runs with the clipping  *)
(* layer, with or without the chat layer; clips are requested from the      *)
(* control panel, the clipper is activated, time passes, and the Twitch API *)
(* answers or fails.                                                        *)

ClipFeatures == {{"chatCommands", "autoClipping"}, {"autoClipping"}}

InitClipOutcome ==
    /\ variant = "grok"
    /\ features \in ClipFeatures
    /\ InitEngine(0)
    /\ client = ("chatCommands" \in features)
    /\ isConnected = ("chatCommands" \in features)
    /\ chatLog = <<>>
    /\ InitObserver(Half)
    /\ \E has \in BOOLEAN : InitClipper(has)
    /\ call = NoDirectCall
    /\ InitModules

NextClipOutcome ==
    \/ ClipActivate
    \/ clipTicks + clipSeq < MaxLifeSteps
           /\ \E d \in IdleDurations \cup {clipPeriod} : ClipElapse(d)
    \/ clipTicks + clipSeq < MaxLifeSteps
           /\ \E t \in ManualTitles : CreateManualClip(t)
    \/ ProcessClipQueue
    \/ \E c \in clipPending : ClipLookupSettle(c, TRUE)
    \/ \E c \in clipPending : ClipLookupSettle(c, FALSE)
    \/ \E c \in clipPending, o \in ClipOutcomes : ClipPostSettle(c, o)

SpecClipOutcome == InitClipOutcome /\ [][NextClipOutcome]_vars

----------------------------------------------------------------------------
(* The layers wired by index.js: the observer's listeners hand critical     *)
(* moments to the clipper and gameplay events to the engine.                *)

\* the listeners index.js registers, by the module they call, and a further
\* listener registered with on(event, callback) that calls no module
WiredListeners == [topic \in Topics |->
                      IF topic = "criticalMoment" THEN <<"clipper">> ELSE <<"engine">>]

\* on(event, callback) of the observer, for a further listener
On(topic) ==
    /\ Len(listeners[topic]) < 2
    /\ listeners' = [listeners EXCEPT ![topic] = Append(@, "extra")]
    /\ UNCHANGED <<sensitivity, gameplayData, criticalMoments, emitted, isObserving,
                   analysisInterval, analysisDue, engineVars, clientVars,
                   clipperVars, call>>
    /\ UNCHANGED moduleVars

\* one listener runs for an event: processCriticalMoment(moment) of the
\* clipper, processGameplayEvent(event) of the engine, or nothing
heardBy(st, name, event) ==
    IF name = "clipper"
    THEN LET moment == criticalMoment(event)
             request == [queueClip(st.clipQueue, moment)[Len(st.clipQueue) + 1]
                            EXCEPT !.serial = st.clipSeq + 1]
         IN  IF "autoClipping" \in features /\ clipActive
                    /\ clipperShouldCreateClip(moment)
             THEN [st EXCEPT !.clipQueue = Append(st.clipQueue, request),
                             !.clipSeq = st.clipSeq + 1]
             ELSE st
    ELSE IF name = "engine" /\ "generativeAI" \in features
    THEN IF variant = "grok"
         THEN IF isActive
              THEN [st EXCEPT !.recentEvents = pushRecentEvent(st.recentEvents, event),
                              !.responseQueue =
                                  IF event.intensity > 70
                                  THEN queueGameplayResponse(st.responseQueue, event)
                                  ELSE st.responseQueue]
              ELSE st
         ELSE [st EXCEPT !.responseQueue = queueGameplayResponse(st.responseQueue, event)]
    ELSE st

\* listeners[event].forEach(callback => callback(...args))
RECURSIVE heardByAll(_, _, _)
heardByAll(st, names, event) ==
    IF names = <<>> THEN st
    ELSE heardByAll(heardBy(st, Head(names), event), Tail(names), event)

\* processGameplayEvent(event) of the observer with its listeners
heard(st, event) ==
    LET counted == [st EXCEPT !.gameplayData = updateGameplayStats(st.gameplayData, event)]
        marked ==
            IF shouldCreateClip(event)
            THEN heardByAll(
                     [counted EXCEPT
                         !.criticalMoments = addCriticalMoment(st.criticalMoments, event),
                         !.emitted = Append(st.emitted, emit("criticalMoment", event))],
                     listeners["criticalMoment"], event)
            ELSE counted
    IN  heardByAll([marked EXCEPT
                       !.emitted = Append(marked.emitted, emit("gameplayEvent", event))],
                   listeners["gameplayEvent"], event)

\* events.forEach(event => this.processGameplayEvent(event))
RECURSIVE heardAll(_, _)
heardAll(st, events) ==
    IF events = <<>> THEN st
    ELSE heardAll(heard(st, Head(events)), Tail(events))

\* analyzeGameplay(), the callback of the analysis timer, with the listeners
\* of index.js: the events of the period reach the clipper and the engine
AnalyzeGameplayHeard(random, us) ==
    /\ analysisInterval
    /\ analysisDue
    /\ analysisDue' = FALSE
    /\ LET events == simulateGameplayEvents(random, us)
           st == heardAll([gameplayData |-> gameplayData,
                           criticalMoments |-> criticalMoments,
                           emitted |-> emitted,
                           recentEvents |-> recentEvents,
                           responseQueue |-> responseQueue,
                           clipQueue |-> clipQueue,
                           clipSeq |-> clipSeq], events)
       IN  /\ gameplayData' = st.gameplayData
           /\ criticalMoments' = st.criticalMoments
           /\ emitted' = st.emitted
           /\ recentEvents' = st.recentEvents
           /\ responseQueue' = st.responseQueue
           /\ clipQueue' = st.clipQueue
           /\ clipSeq' = st.clipSeq
           /\ call' = [op |-> "analyzeGameplay", at |-> now, random |-> random,
                       fired |-> {events[i].type : i \in 1..Len(events)}]
    /\ UNCHANGED <<sensitivity, isObserving, analysisInterval, listeners,
                   variant, features, now, isActive, responseProcessor, drainDue,
                   intensity, lastResponseTime, conversationHistory, pending,
                   triggers, calls, unhandled, lastSettled, clientVars,
                   clipActive, clipDue, credentials, recentClips, lastClipTime,
                   clipPending, clipLog, clipTicks>>
    /\ UNCHANGED moduleVars

\* the numbers analyzeGameplay draws in this specification: every event of
\* the period fires, or none
WiredDraws == {0, 999}

\* initialize() has run with every layer enabled and no clip credentials:
\* the listeners are registered, the observer is started, the engine and the
\* clipper are activated.
InitWired ==
    /\ variant \in Variants
    /\ features = AllFeatures
    /\ now = StartTime
    /\ isActive = TRUE
    /\ responseProcessor = TRUE
    /\ drainDue = FALSE
    /\ intensity = OrDefault(0)
    /\ lastResponseTime = 0
    /\ conversationHistory = <<>>
    /\ recentEvents = <<>>
    /\ responseQueue = <<>>
    /\ pending = {}
    /\ triggers = 0
    /\ calls = 0
    /\ unhandled = FALSE
    /\ lastSettled = [id |-> 0, path |-> "none", kind |-> "none"]
    /\ client = TRUE
    /\ isConnected = TRUE
    /\ chatLog = <<>>
    /\ sensitivity = Half
    /\ gameplayData = NoGameplay
    /\ criticalMoments = <<>>
    /\ emitted = <<>>
    /\ isObserving = TRUE
    /\ analysisInterval = TRUE
    /\ analysisDue = FALSE
    /\ listeners = WiredListeners
    /\ clipActive = TRUE
    /\ clipDue = FALSE
    /\ credentials = FALSE
    /\ clipQueue = <<>>
    /\ recentClips = <<>>
    /\ lastClipTime = 0
    /\ clipPending = {}
    /\ clipSeq = 0
    /\ clipLog = <<>>
    /\ clipTicks = 0
    /\ call = NoTick
    /\ InitModules

NextWired ==
    \/ \E topic \in Topics : On(topic)
    \/ Advance
    \/ \E random \in WiredDraws, us \in IntensityVectors :
           AnalyzeGameplayHeard(random, us)
    \/ DrainTick
    \/ \E c \in pending, o \in SteadyOutcomes : Settle(c, o)
    \/ ProcessClipQueue

SpecWired == InitWired /\ [][NextWired]_vars

----------------------------------------------------------------------------
(* Specification of the sliding windows: the bot has been running for a     *)
(* while with every layer enabled and without clip credentials, so that the *)
(* conversation history, the recent events and the recent clips are full or *)
(* one entry short of their limits; chat messages, gameplay events and clip *)
(* requests keep arriving.                                                  *)

\* entries a window is short of its limit when the run starts
WindowGaps == {0, 1}

\* the time the i-th entry of a window was added
PastTime(i) == StartTime + i

historyLimitOf(v) == IF v = "grok" THEN historyLimit ELSE apiFreeHistoryLimit

PastTurn(v, i) ==
    IF v = "grok"
    THEN [username |-> <<"u">>, message |-> <<"x">>, timestamp |-> PastTime(i)]
    ELSE [prompt |-> <<"B", "O">>, response |-> <<"o", "k">>, timestamp |-> PastTime(i)]

PastEvent(i) == [type |-> "kill", intensity |-> 90, timestamp |-> PastTime(i)]

PastClip(i) ==
    [serial |-> 0, title |-> [base |-> <<"T">>, stamp |-> clockLabel(PastTime(i))],
     moment |-> [id |-> PastTime(i), title |-> <<"T">>, clipWorthy |-> TRUE,
                 event |-> [type |-> "manual", intensity |-> Unit,
                            timestamp |-> PastTime(i)],
                 timestamp |-> PastTime(i)],
     createdAt |-> PastTime(i), simulated |-> TRUE]

InitWindows ==
    /\ variant \in Variants
    /\ features = AllFeatures
    /\ now = PastTime(Max(historyLimit, clipsLimit))
    /\ isActive = TRUE
    /\ responseProcessor = TRUE
    /\ drainDue = FALSE
    /\ intensity = OrDefault(0)
    /\ lastResponseTime = 0
    /\ \E gap \in WindowGaps :
           /\ conversationHistory =
                  [i \in 1..(historyLimitOf(variant) - gap) |-> PastTurn(variant, i)]
           /\ recentEvents =
                  IF variant = "grok"
                  THEN [i \in 1..(recentEventsLimit - gap) |-> PastEvent(i)]
                  ELSE <<>>
           /\ recentClips = [i \in 1..(clipsLimit - gap) |-> PastClip(i)]
           /\ lastClipTime = PastTime(clipsLimit - gap)
    /\ responseQueue = <<>>
    /\ pending = {}
    /\ triggers = 0
    /\ calls = 0
    /\ unhandled = FALSE
    /\ lastSettled = [id |-> 0, path |-> "none", kind |-> "none"]
    /\ client = TRUE
    /\ isConnected = TRUE
    /\ chatLog = <<>>
    /\ InitObserver(Half)
    /\ clipActive = TRUE
    /\ clipDue = FALSE
    /\ credentials = FALSE
    /\ clipQueue = <<>>
    /\ clipPending = {}
    /\ clipSeq = 0
    /\ clipLog = <<>>
    /\ clipTicks = 0
    /\ call = NoDirectCall
    /\ InitModules

\* the arrivals and clock steps of a run made so far
WindowSteps == triggers + clipTicks + clipSeq

NextWindows ==
    \/ WindowSteps < MaxLifeSteps
           /\ \E ch \in ChatChannels, u \in Userstates, m \in SteadyChat :
                  ProcessChatMessage(ch, u, m, 0)
    \/ WindowSteps < MaxLifeSteps
           /\ \E u \in Userstates, m \in SteadyChat :
                  ProcessChatMessageApiFree(u.username, m, u)
    \/ WindowSteps < MaxLifeSteps
           /\ \E e \in SteadyEvents : ProcessGameplayEvent([e EXCEPT !.timestamp = now])
    \/ DrainTick
    \/ \E c \in pending, o \in SteadyOutcomes : Settle(c, o)
    \/ WindowSteps < MaxLifeSteps /\ ClipElapse(clipPeriod)
    \/ WindowSteps < MaxLifeSteps /\ \E t \in ManualTitles : CreateManualClip(t)
    \/ ProcessClipQueue

SpecWindows == InitWindows /\ [][NextWindows]_vars

----------------------------------------------------------------------------
(* Specification of the clip queue being drained: the clipper is and stays  *)
(* active with credentials configured, requests made from the control panel *)
(* wait in its queue and no further request arrives; a clip may just have   *)
(* been created, so that the cooldown is running.  The timer fires every    *)
(* period and its callback runs; the Twitch API answers, fails or never     *)
(* answers.                                                                 *)

\* the queue after n calls of createManualClip at the time now
RECURSIVE ManualBacklog(_)
ManualBacklog(n) ==
    IF n = 0 THEN <<>>
    ELSE LET queue == ManualBacklog(n - 1)
         IN  Append(queue, [queueClip(queue, manualMoment(<<"T">>))[n]
                               EXCEPT !.serial = n])

InitClipLive ==
    /\ variant = "grok"
    /\ features = {"chatCommands", "autoClipping"}
    /\ InitEngine(0)
    /\ client = TRUE
    /\ isConnected = TRUE
    /\ chatLog = <<>>
    /\ InitObserver(Half)
    /\ clipActive = TRUE
    /\ clipDue = FALSE
    /\ credentials = TRUE
    /\ clipSeq \in 1..MaxClipRequests
    /\ clipQueue = ManualBacklog(clipSeq)
    /\ recentClips = <<>>
    /\ lastClipTime \in {0, now}
    /\ clipPending = {}
    /\ clipLog = <<>>
    /\ clipTicks = 0
    /\ call = NoDirectCall
    /\ InitModules

NextClipLive ==
    \/ ClipElapse(clipPeriod)
    \/ ProcessClipQueue
    \/ \E c \in clipPending : ClipLookupSettle(c, TRUE)
    \/ \E c \in clipPending : ClipLookupSettle(c, FALSE)
    \/ \E c \in clipPending, o \in ClipOutcomes : ClipPostSettle(c, o)

\* The timer fires as long as it is live and the callback it has made due
\* runs; nothing is assumed of the Twitch API.
SpecClipLive ==
    /\ InitClipLive
    /\ [][NextClipLive]_vars
    /\ WF_vars(ClipElapse(clipPeriod))
    /\ WF_vars(ProcessClipQueue)

----------------------------------------------------------------------------
(* Specification of the timers: every layer is enabled, the three           *)
(* components that own a timer are switched on and off in any order while   *)
(* time passes and their callbacks run; nothing is queued.                  *)

InitTimers ==
    /\ variant \in Variants
    /\ features = AllFeatures
    /\ InitEngine(0)
    /\ client = TRUE
    /\ isConnected = TRUE
    /\ chatLog = <<>>
    /\ InitObserver(Half)
    /\ InitClipper(FALSE)
    /\ call = NoTick
    /\ InitModules

NextTimers ==
    \/ Activate
    \/ Deactivate
    \/ ClipActivate
    \/ ClipDeactivate
    \/ StartObserving
    \/ StopObserving
    \/ Advance
    \/ DrainTick
    \/ ProcessClipQueue
    \/ \E us \in IntensityVectors : AnalyzeGameplay(999, us)

SpecTimers == InitTimers /\ [][NextTimers]_vars

----------------------------------------------------------------------------
(* Specification of the layers' life cycle: the bot runs with one of the    *)
(* layers that own a timer, the control panel switches the layer on and off *)
(* (toggleLayer), time passes, and the layer's queue is fed directly.  The  *)
(* Twitch API and the completion service answer every request.              *)

LifecycleFeatures == {{"chatCommands", "generativeAI"},
                      {"chatCommands", "autoClipping"},
                      {"streamObserver"}}

InitLifecycle ==
    /\ variant \in Variants
    /\ features \in LifecycleFeatures
    /\ InitEngine(0)
    /\ client = ("chatCommands" \in features)
    /\ isConnected = ("chatCommands" \in features)
    /\ chatLog = <<>>
    /\ InitObserver(Half)
    /\ InitClipper(TRUE)
    /\ call = NoTick
    /\ InitModules

NextLifecycle ==
    \/ "generativeAI" \in features /\ Activate
    \/ "generativeAI" \in features /\ Deactivate
    \/ "autoClipping" \notin features /\ Advance
    \/ "generativeAI" \in features
           /\ \E e \in SteadyEvents : ProcessGameplayEvent([e EXCEPT !.timestamp = now])
    \/ "generativeAI" \in features
           /\ \E e \in SteadyEvents :
                  ProcessGameplayEventApiFree([e EXCEPT !.timestamp = now])
    \/ "generativeAI" \in features /\ DrainTick
    \/ "generativeAI" \in features /\ \E c \in pending, o \in Outcomes : Settle(c, o)
    \/ "autoClipping" \in features /\ ClipActivate
    \/ "autoClipping" \in features /\ ClipDeactivate
    \/ "autoClipping" \in features /\ clipTicks + clipSeq < MaxLifeSteps
           /\ \E d \in IdleDurations \cup {clipPeriod} : ClipElapse(d)
    \/ "autoClipping" \in features /\ clipTicks + clipSeq < MaxLifeSteps
           /\ \E t \in ManualTitles : CreateManualClip(t)
    \/ "autoClipping" \in features /\ ProcessClipQueue
    \/ "autoClipping" \in features /\ \E c \in clipPending : ClipLookupSettle(c, TRUE)
    \/ "autoClipping" \in features /\ \E c \in clipPending : ClipPostSettle(c, "ok")
    \/ "streamObserver" \in features /\ StartObserving
    \/ "streamObserver" \in features /\ StopObserving
    \/ "streamObserver" \in features
           /\ \E random \in DetectorDraws, us \in IntensityVectors :
                  AnalyzeGameplay(random, us)

SpecLifecycle == InitLifecycle /\ [][NextLifecycle]_vars

----------------------------------------------------------------------------
(* RecurringMessages (src/modules/recurringMessages.js) *)

intervalTime == 900000              \* this.intervalTime: 15 minutes
minChatActivityInterval == 300000   \* this.minChatActivityInterval: 5 minutes
MaxTimeouts == 3                    \* timeouts the recurring messages set in a run

\* this.messages
recurringTexts == << <<"follow">>, <<"commands">>, <<"ask">>, <<"like">> >>

\* clearTimeout(handle): a timeout that fired or was cleared is not there
clearTimeout(pendingTimeouts, handle) ==
    {t \in pendingTimeouts : t.id # handle}

\* _stopTimer(), then setTimeout(() => this._sendMessage(), intervalTime)
startTimer(handle, pendingTimeouts) ==
    /\ timeoutSeq' = timeoutSeq + 1
    /\ recurringTimer' = timeoutSeq + 1
    /\ timeouts' = clearTimeout(pendingTimeouts, handle)
                       \cup {[id |-> timeoutSeq + 1, due |-> now + intervalTime]}

\* The activity test of _sendMessage: the chat was active too recently.
\* Mutant: the chat is never taken for active.
chatWasActive_never == FALSE

chatWasActive == now - lastChatActivity < minChatActivityInterval

\* activate() of the recurring messages
RecurringActivate ==
    /\ ~recurringActive
    /\ timeoutSeq < MaxTimeouts
    /\ recurringActive' = TRUE
    /\ startTimer(recurringTimer, timeouts)
    /\ UNCHANGED <<engineVars, clientVars, observerVars, clipperVars, call,
                   timerVars, frontVars, reactiveVars, lastChatActivity,
                   messageIndex,
                   panelVars>>

\* deactivate() of the recurring messages
RecurringDeactivate ==
    /\ recurringActive
    /\ recurringActive' = FALSE
    /\ timeouts' = clearTimeout(timeouts, recurringTimer)
    /\ recurringTimer' = 0
    /\ UNCHANGED <<engineVars, clientVars, observerVars, clipperVars, call,
                   timerVars, frontVars, reactiveVars, timeoutSeq,
                   lastChatActivity, messageIndex,
                   panelVars>>

\* onChatActivity()
OnChatActivity ==
    /\ lastChatActivity # now
    /\ lastChatActivity' = now
    /\ UNCHANGED <<engineVars, clientVars, observerVars, clipperVars, call,
                   timerVars, frontVars, reactiveVars, recurringActive,
                   recurringTimer, timeouts, timeoutSeq, messageIndex,
                   panelVars>>

\* Time passes, up to the moment the next timeout is due.
RecurringElapse(d) ==
    /\ \A t \in timeouts : now + d <= t.due
    /\ now + d <= StartTime + MaxTimeouts * intervalTime
    /\ now' = now + d
    /\ UNCHANGED <<variant, features, isActive, responseProcessor, drainDue,
                   intensity, lastResponseTime, conversationHistory, recentEvents,
                   responseQueue, pending, triggers, calls, unhandled,
                   lastSettled, clientVars, observerVars, clipperVars, call,
                   moduleVars>>

\* A timeout fires and _sendMessage() runs.  With the chat layer disabled
\* the module was built without a client, and say throws out of the callback
\* before the timer is set again.
SendMessage(t) ==
    /\ t \in timeouts
    /\ t.due <= now
    /\ timeoutSeq < MaxTimeouts
    /\ LET left == timeouts \ {t}
       IN  IF ~recurringActive
           THEN /\ timeouts' = left
                /\ UNCHANGED <<chatLog, recurringTimer, timeoutSeq, messageIndex,
                               unhandled>>
           ELSE IF chatWasActive
           THEN /\ startTimer(recurringTimer, left)
                /\ UNCHANGED <<chatLog, messageIndex, unhandled>>
           ELSE IF "chatCommands" \notin features
           THEN /\ timeouts' = left
                /\ unhandled' = TRUE
                /\ UNCHANGED <<chatLog, recurringTimer, timeoutSeq, messageIndex>>
           ELSE /\ chatLog' =
                       IF client /\ isConnected
                       THEN Append(chatLog,
                                [kind |-> "recurring", call |-> NoCall, at |-> now,
                                 text |-> recurringTexts[messageIndex + 1],
                                 channel |-> twitchChannels[1],
                                 active |-> isActive])
                       ELSE chatLog
                /\ messageIndex' = (messageIndex + 1) % Len(recurringTexts)
                /\ startTimer(recurringTimer, left)
                /\ UNCHANGED unhandled
    /\ UNCHANGED <<variant, features, now, isActive, responseProcessor, drainDue,
                   intensity, lastResponseTime, conversationHistory, recentEvents,
                   responseQueue, pending, triggers, calls, lastSettled, client,
                   isConnected, observerVars, clipperVars, call, timerVars,
                   frontVars, reactiveVars, recurringActive, lastChatActivity,
                   panelVars>>

----------------------------------------------------------------------------
(* Specification of the recurring messages: the bot runs with the recurring *)
(* messages, with or without the chat layer; the module is activated and    *)
(* deactivated, the chat is active now and then, time passes and the        *)
(* timeouts fire when they are due.                                         *)

RecurringFeatures == {{"chatCommands", "recurringMessages"}, {"recurringMessages"}}
RecurringGaps == {minChatActivityInterval, intervalTime}

InitRecurringRun ==
    /\ variant = "grok"
    /\ features \in RecurringFeatures
    /\ InitEngine(0)
    /\ client = ("chatCommands" \in features)
    /\ isConnected = ("chatCommands" \in features)
    /\ chatLog = <<>>
    /\ InitObserver(Half)
    /\ InitClipper(FALSE)
    /\ call = NoTick
    /\ InitModules

NextRecurring ==
    \/ RecurringActivate
    \/ RecurringDeactivate
    \/ OnChatActivity
    \/ \E d \in RecurringGaps : RecurringElapse(d)
    \/ \E t \in timeouts : SendMessage(t)

SpecRecurring == InitRecurringRun /\ [][NextRecurring]_vars

----------------------------------------------------------------------------
(* The chat front: index.js initialises the layers in order, ChatCommands   *)
(* runs the commands, and TwitchClient hands the chat messages of others to *)
(* the 'message' listener of index.js.                                      *)

\* the layers of the model in the order initialize() creates them
LayerOrder == <<"chatCommands", "streamObserver", "generativeAI",
                "recurringMessages", "autoClipping">>

\* initialize() has come to a layer: the layer is enabled and not created
\* yet, and every enabled layer before it has been created
LayerIsNext(layer) ==
    /\ layer \in features \ booted
    /\ \A i, j \in 1..Len(LayerOrder) :
           i < j /\ LayerOrder[j] = layer /\ LayerOrder[i] \in features
               => LayerOrder[i] \in booted

\* the position of the first space of s, Len(s) + 1 when it has none
RECURSIVE indexOfSpace(_)
indexOfSpace(s) ==
    IF s = <<>> \/ Head(s) = " " THEN 1 ELSE 1 + indexOfSpace(Tail(s))

\* message.slice(prefix.length).trim().split(' '), then args.shift(): the
\* command word in lower case, and the remaining words joined by ' '
commandOf(message) ==
    LET body == trim(SubSeq(message, Len(botPrefix) + 1, Len(message)))
    IN  toLowerCase(SubSeq(body, 1, indexOfSpace(body) - 1))
argsOf(message) ==
    LET body == trim(SubSeq(message, Len(botPrefix) + 1, Len(message)))
    IN  SubSeq(body, indexOfSpace(body) + 1, Len(body))

clipWord == <<"c", "l", "i", "p">>
\* the keys of ChatCommands.commands
commandWords == {<<"h", "e", "l", "p">>, <<"u", "p", "t", "i", "m", "e">>,
                 <<"g", "a", "m", "e">>, <<"s", "o">>, clipWord}

\* what clipCommand answers
notActiveText == <<"clipping is not active">>
requestedText(title) == <<"manual clip requested">> \o title

\* the title clipCommand asks for
commandTitle(userstate, args) ==
    IF trim(args) # <<>> THEN trim(args) ELSE <<"Clip de ">> \o userstate.username

\* TwitchClient.say(channel, message) called by a command
sayCommand(log, channel, text) ==
    IF client /\ isConnected
    THEN Append(log, [kind |-> "command", call |-> NoCall, at |-> now,
                      text |-> text, channel |-> channel, active |-> isActive])
    ELSE log

\* clipCommand(channel, userstate, args)
clipCommand(channel, userstate, args) ==
    IF ~commandsClipper
    THEN /\ chatLog' = sayCommand(chatLog, channel, notActiveText)
         /\ UNCHANGED <<clipQueue, clipSeq, clipLog>>
    ELSE LET title == commandTitle(userstate, args)
         IN  /\ clipQueue' = queueClip(clipQueue, manualMoment(title))
             /\ clipSeq' = clipSeq + 1
             /\ clipLog' = Append(clipLog,
                    Logged("manual", [serial |-> clipSeq + 1, timestamp |-> now,
                                      moment |-> manualMoment(title)], FALSE))
             /\ chatLog' = sayCommand(chatLog, channel, requestedText(title))

\* handleCommand(channel, userstate, message); the other commands answer
\* with one message, which stands here as the command word
handleCommand(channel, userstate, message) ==
    IF ~startsWith(message, botPrefix) \/ commandOf(message) \notin commandWords
    THEN UNCHANGED <<chatLog, clipQueue, clipSeq, clipLog>>
    ELSE IF commandOf(message) = clipWord
         THEN clipCommand(channel, userstate, argsOf(message))
         ELSE /\ chatLog' = sayCommand(chatLog, channel, commandOf(message))
              /\ UNCHANGED <<clipQueue, clipSeq, clipLog>>

\* `if (this.generativeAI) this.generativeAI.processChatMessage(channel,
\* userstate, message)` of the 'message' listener, up to the completion call
engineHears(channel, userstate, message, random) ==
    IF "generativeAI" \in booted /\ isActive
    THEN /\ triggers' = triggers + 1
         /\ conversationHistory' =
                addToConversationHistory(conversationHistory, userstate.username,
                                         message)
         /\ IF shouldRespond(message, random)
            THEN /\ pending' = pending \cup
                         {NewCall("chat", <<channel>>, userstate.username, message,
                                  NoEvent)}
                 /\ calls' = calls + 1
            ELSE UNCHANGED <<pending, calls>>
    ELSE UNCHANGED <<triggers, conversationHistory, pending, calls>>

\* `if (this.recurringMessages) this.recurringMessages.onChatActivity()` of
\* the 'message' listener
recurringHears ==
    lastChatActivity' = IF "recurringMessages" \in booted THEN now
                        ELSE lastChatActivity

\* Mutant: the handler does not look at self.
OnMessageHandler_forwardsOwn(target, context, msg, self, random) ==
    /\ client
    /\ Len(inbox) < MaxTriggers
    /\ clipSeq < MaxClipRequests
    /\ inbox' = Append(inbox, [username |-> context.username, message |-> msg,
                               self |-> self, at |-> now])
    /\ handleCommand(target, context, msg)
    /\ engineHears(target, context, msg, random)
    /\ recurringHears
    /\ UNCHANGED <<variant, features, now, isActive, responseProcessor, drainDue,
                   intensity, lastResponseTime, recentEvents, responseQueue,
                   unhandled, lastSettled, client, isConnected, observerVars,
                   clipActive, clipDue, credentials, recentClips, lastClipTime,
                   clipPending, clipTicks, call, timerVars, booted,
                   commandsClipper, reactiveVars, recurringActive,
                   recurringTimer, timeouts, timeoutSeq, messageIndex,
                   panelVars>>

\* TwitchClient.onMessageHandler(target, context, msg, self) with the
\* 'message' listener of index.js registered: a message of the bot's own is
\* dropped, any other goes to the commands and then to the engine.
OnMessageHandler(target, context, msg, self, random) ==
    /\ client
    /\ Len(inbox) < MaxTriggers
    /\ clipSeq < MaxClipRequests
    /\ inbox' = Append(inbox, [username |-> context.username, message |-> msg,
                               self |-> self, at |-> now])
    /\ IF self
       THEN UNCHANGED <<chatLog, clipQueue, clipSeq, clipLog, triggers,
                        conversationHistory, pending, calls, lastChatActivity>>
       ELSE /\ handleCommand(target, context, msg)
            /\ engineHears(target, context, msg, random)
            /\ recurringHears
    /\ UNCHANGED <<variant, features, now, isActive, responseProcessor, drainDue,
                   intensity, lastResponseTime, recentEvents, responseQueue,
                   unhandled, lastSettled, client, isConnected, observerVars,
                   clipActive, clipDue, credentials, recentClips, lastClipTime,
                   clipPending, clipTicks, call, timerVars, booted,
                   commandsClipper, reactiveVars, recurringActive,
                   recurringTimer, timeouts, timeoutSeq, messageIndex,
                   panelVars>>

\* initializeChatLayer(): the client and the commands are created, the
\* commands with bot.autoClipper as it is then; the listener is registered
\* and connect() greets the channels.
InitializeChatLayer ==
    /\ LayerIsNext("chatCommands")
    /\ booted' = booted \cup {"chatCommands"}
    /\ commandsClipper' = ("autoClipping" \in booted)
    /\ client' = TRUE
    /\ isConnected' = TRUE
    /\ chatLog' = chatLog \o [i \in 1..Len(twitchChannels) |->
                    [kind |-> "status", call |-> NoCall, at |-> now,
                     text |-> <<"o", "n">>, channel |-> twitchChannels[i],
                     active |-> isActive]]
    /\ UNCHANGED <<engineVars, observerVars, clipperVars, call, timerVars, inbox,
                   reactiveVars, recurringVars,
                   panelVars>>

\* initializeGenerativeAILayer(): the engine is created and activated
InitializeGenerativeAILayer ==
    /\ LayerIsNext("generativeAI")
    /\ booted' = booted \cup {"generativeAI"}
    /\ isActive' = TRUE
    /\ responseProcessor' = TRUE
    /\ timers' = setInterval(timers, "engine")
    /\ drainDue' = FALSE
    /\ UNCHANGED <<variant, features, now, intensity, lastResponseTime,
                   conversationHistory, recentEvents, responseQueue, pending,
                   triggers, calls, unhandled, lastSettled, clientVars,
                   observerVars, clipperVars, call, clipProcessor,
                   commandsClipper, inbox, reactiveVars,
                   recurringVars, panelVars>>

\* initializeRecurringMessages(): the recurring messages are created and
\* activated
InitializeRecurringMessages ==
    /\ LayerIsNext("recurringMessages")
    /\ booted' = booted \cup {"recurringMessages"}
    /\ timeoutSeq < MaxTimeouts
    /\ recurringActive' = TRUE
    /\ startTimer(recurringTimer, timeouts)
    /\ lastChatActivity' = now
    /\ UNCHANGED <<engineVars, clientVars, observerVars, clipperVars, call,
                   timerVars, commandsClipper, inbox, reactiveVars, messageIndex,
                   panelVars>>

\* initializeAutoClippingLayer(): the clipper is created, its 'clipCreated'
\* listener registered, and it is activated
InitializeAutoClippingLayer ==
    /\ LayerIsNext("autoClipping")
    /\ booted' = booted \cup {"autoClipping"}
    /\ clipActive' = TRUE
    /\ clipProcessor' = TRUE
    /\ timers' = setInterval(timers, "clipper")
    /\ clipDue' = FALSE
    /\ UNCHANGED <<credentials, clipQueue, recentClips, lastClipTime, clipPending,
                   clipSeq, clipLog, clipTicks, engineVars, clientVars,
                   observerVars, call, commandsClipper, inbox, reactiveVars,
                   recurringVars, panelVars>>

----------------------------------------------------------------------------
(* Specification of the chat front: the bot is constructed with the chat    *)
(* layer and any of the engine (Grok version, whose processChatMessage has  *)
(* the signature index.js calls), the recurring messages and the clipping   *)
(* layer, initialize() runs,                                                *)
(* and chat messages arrive, of viewers and of the bot itself; completion   *)
(* calls settle.                                                            *)

FrontFeatures == {{"chatCommands"}, {"chatCommands", "autoClipping"},
                  {"chatCommands", "generativeAI", "recurringMessages"},
                  {"chatCommands", "generativeAI", "recurringMessages",
                   "autoClipping"}}
\* '!clip', '!Clip T', '!help' and a mention of the bot
FrontInputs == {<<"!">> \o clipWord, <<"!", "C", "l", "i", "p", " ", "T">>,
                <<"!", "h", "e", "l", "p">>, <<"B", "O">>}

InitFront ==
    /\ variant = "grok"
    /\ features \in FrontFeatures
    /\ InitEngine(0)
    /\ InitClient
    /\ InitObserver(Half)
    /\ InitClipper(TRUE)
    /\ call = NoDirectCall
    /\ clipProcessor = FALSE
    /\ timers = [c \in Components |-> 0]
    /\ booted = {}
    /\ commandsClipper = FALSE
    /\ inbox = <<>>
    /\ InitReactive
    /\ InitRecurring
    /\ InitPanel("", FALSE)

NextFront ==
    \/ InitializeChatLayer
    \/ InitializeGenerativeAILayer
    \/ InitializeRecurringMessages
    \/ InitializeAutoClippingLayer
    \/ \E ch \in ChatChannels, u \in Userstates, m \in FrontInputs,
          self \in BOOLEAN :
           OnMessageHandler(ch, u, m, self, 0)
    \/ \E c \in pending, o \in SteadyOutcomes : Settle(c, o)

SpecFront == InitFront /\ [][NextFront]_vars

----------------------------------------------------------------------------
(* ReactiveResponses (src/modules/reactiveResponses.js) *)

reactiveMinInterval == 5000     \* this.minResponseInterval
aiChance == 40                  \* the literal 0.4, in hundredths

\* The pattern groups the model runs with: the 'discord' group of
\* defaultResponses.  A pattern 'a.*b' is the pair of its two literals.
discordWord == <<"d", "i", "s", "c", "o", "r", "d">>
reactivePatterns ==
    << [type |-> "discord",
        patterns |-> << <<discordWord, <<"l", "i", "n", "k">> >>,
                        << <<"t", "e", "m">>, discordWord>>,
                        << <<"s", "e", "r", "v", "i", "d", "o", "r">>, discordWord>>,
                        <<discordWord, <<"s", "e", "r", "v", "i", "d", "o", "r">> >> >>,
        responses |-> << <<"discord 1">>, <<"discord 2">>, <<"discord 3">> >>] >>

\* new RegExp('a.*b', 'i').test(s): a, then characters other than line
\* breaks, then b
regexTest(pattern, s) ==
    \E i, j \in 1..Len(s) :
        /\ i + Len(pattern[1]) <= j
        /\ j + Len(pattern[2]) - 1 <= Len(s)
        /\ SubSeq(s, i, i + Len(pattern[1]) - 1) = pattern[1]
        /\ SubSeq(s, j, j + Len(pattern[2]) - 1) = pattern[2]
        /\ \A k \in (i + Len(pattern[1]))..(j - 1) : s[k] # "\n"

\* findMatchingPattern(message): the groups with a pattern that matches, the
\* first of them being the one returned
matchingGroups(message) ==
    {g \in 1..Len(reactivePatterns) :
        \E k \in 1..Len(reactivePatterns[g].patterns) :
            regexTest(reactivePatterns[g].patterns[k], toLowerCase(message))}
findMatchingPattern(message) ==
    IF matchingGroups(message) = {} THEN 0
    ELSE CHOOSE g \in matchingGroups(message) :
             \A h \in matchingGroups(message) : g <= h

\* the tests of processMessage before it looks for a pattern
reactiveMayAnswer(message) ==
    /\ reactiveActive
    /\ ~(now - reactiveLast < reactiveMinInterval)
    /\ ~startsWith(message, botPrefix)

\* twitchClient.say(channel, `@${username} ${responseToSend}`)
sayReactive(log, channel, username, text) ==
    IF client /\ isConnected
    THEN Append(log, [kind |-> "reactive", call |-> NoCall, at |-> now,
                      text |-> <<"@">> \o username \o <<" ">> \o text,
                      channel |-> channel, active |-> isActive])
    ELSE log

\* activate() and deactivate() of the reactive responses
ReactiveActivate ==
    /\ ~reactiveActive
    /\ reactiveActive' = TRUE
    /\ UNCHANGED <<engineVars, clientVars, observerVars, clipperVars, call,
                   timerVars, panelVars, frontVars, reactiveLast, reactivePending,
                   reactiveSeen, recurringVars>>

ReactiveDeactivate ==
    /\ reactiveActive
    /\ reactiveActive' = FALSE
    /\ UNCHANGED <<engineVars, clientVars, observerVars, clipperVars, call,
                   timerVars, panelVars, frontVars, reactiveLast, reactivePending,
                   reactiveSeen, recurringVars>>

\* processMessage(channel, userstate, message), up to its await or, when the
\* AI is not asked, to its end.  random is the draw of the AI test, k the
\* answer getRandomResponse picks.
ProcessMessage(channel, userstate, message, random, k) ==
    /\ reactiveSeen < MaxTriggers
    /\ reactiveSeen' = reactiveSeen + 1
    /\ LET group == findMatchingPattern(message)
           useAI == /\ "generativeAI" \in features
                    /\ isActive
                    /\ random < aiChance
       IN  IF ~reactiveMayAnswer(message) \/ group = 0
           THEN UNCHANGED <<chatLog, reactiveLast, reactivePending>>
           ELSE IF useAI
           THEN /\ reactivePending' = reactivePending \cup
                       {[id |-> reactiveSeen + 1, channel |-> channel,
                         username |-> userstate.username, group |-> group,
                         now |-> now]}
                /\ UNCHANGED <<chatLog, reactiveLast>>
           ELSE /\ k \in 1..Len(reactivePatterns[group].responses)
                /\ chatLog' = sayReactive(chatLog, channel, userstate.username,
                                          reactivePatterns[group].responses[k])
                /\ reactiveLast' = now
                /\ UNCHANGED reactivePending
    /\ UNCHANGED <<engineVars, client, isConnected, observerVars, clipperVars,
                   call, timerVars, panelVars, frontVars, reactiveActive, recurringVars>>

\* processMessage after `await this.generateAIResponse(...)`.  The engine has
\* no _callApiFreeLLM method, so generateAIResponse catches the TypeError of
\* the call and resolves to null; the continuation runs once the code that
\* is running has returned, answers with a pre-defined response and stores
\* the time the call read at its start.
ReactiveResume(c, k) ==
    /\ c \in reactivePending
    /\ reactivePending' = reactivePending \ {c}
    /\ k \in 1..Len(reactivePatterns[c.group].responses)
    /\ chatLog' = sayReactive(chatLog, c.channel, c.username,
                              reactivePatterns[c.group].responses[k])
    /\ reactiveLast' = c.now
    /\ UNCHANGED <<engineVars, client, isConnected, observerVars, clipperVars,
                   call, timerVars, panelVars, frontVars, reactiveActive, reactiveSeen,
                   recurringVars>>

----------------------------------------------------------------------------
(* Specification of the reactive responses: the module is built on the      *)
(* connected client and the engine, both are switched on and off, chat      *)
(* messages are handed to processMessage one after another, also several in *)
(* one turn of the event loop, and time passes between the turns.           *)

\* 'Discord link', '!tem discord' and a message no pattern matches
ReactiveInputs == {<<"D">> \o Tail(discordWord) \o <<" ", "l", "i", "n", "k">>,
                   <<"!", "t", "e", "m", " ">> \o discordWord,
                   <<"o", "i">>}
ReactiveDraws == {0, 99}
\* the answers getRandomResponse picks: the first and the last of a group
ReactivePicks == {1, 3}

InitReactiveRun ==
    /\ variant \in Variants
    /\ features = AllFeatures
    /\ InitEngine(0)
    /\ client = TRUE
    /\ isConnected = TRUE
    /\ chatLog = <<>>
    /\ InitObserver(Half)
    /\ InitClipper(FALSE)
    /\ call = NoTick
    /\ InitModules

NextReactive ==
    \/ ReactiveActivate
    \/ ReactiveDeactivate
    \/ Activate
    \/ Deactivate
    \/ reactivePending = {} /\ Advance
    \/ DrainTick
    \/ \E ch \in ChatChannels, u \in Userstates, m \in ReactiveInputs,
          r \in ReactiveDraws, k \in ReactivePicks :
           ProcessMessage(ch, u, m, r, k)
    \/ \E c \in reactivePending, k \in ReactivePicks : ReactiveResume(c, k)

SpecReactive == InitReactiveRun /\ [][NextReactive]_vars

----------------------------------------------------------------------------
(* WebPanel (src/web/webPanel.js), the version that authenticates the       *)
(* requests under /api (lines 304-782)                                      *)

MaxRequests == 2        \* requests the panel answers in a run

\* What a route handler leaves behind: the state the panel's routes reach,
\* and the status of the answer.  current is that state untouched.
current ==
    [intensity |-> intensity, sensitivity |-> sensitivity,
     isActive |-> isActive, responseProcessor |-> responseProcessor,
     drainDue |-> drainDue, isObserving |-> isObserving,
     analysisInterval |-> analysisInterval, analysisDue |-> analysisDue,
     clipActive |-> clipActive, clipProcessor |-> clipProcessor,
     clipDue |-> clipDue, timers |-> timers, clipQueue |-> clipQueue,
     clipSeq |-> clipSeq, clipLog |-> clipLog, bannedList |-> bannedList,
     status |-> 200]

\* The authentication middleware: the status it answers with, 0 when it
\* calls next().
\* Mutant: every request is let through.
authenticateApiRequests_open(method, key) == 0

authenticateApiRequests(method, key) ==
    IF method = "GET" THEN 0
    ELSE IF panelSecret = "" THEN (IF production THEN 500 ELSE 0)
    ELSE IF key = "" \/ key # panelSecret THEN 401
    ELSE 0

\* setupMiddleware(): cors() answers an OPTIONS request itself,
\* express.json() rejects a body that does not parse, and then the
\* authentication runs.  The status the middleware answers with, 0 when the
\* request goes on to the routes.
middleware(method, key, body) ==
    IF method = "OPTIONS" THEN 204
    ELSE IF body = "malformed" THEN 400
    ELSE authenticateApiRequests(method, key)

\* toggleLayer(layer, enabled); a layer the bot did not create throws, and
\* the route answers 400
toggleLayer(layer, enabled) ==
    IF layer \notin features THEN [current EXCEPT !.status = 400]
    ELSE IF layer = "generativeAI"
    THEN IF enabled = isActive THEN current
         ELSE [current EXCEPT
                  !.isActive = enabled, !.responseProcessor = enabled,
                  !.drainDue = FALSE,
                  !.timers = IF enabled THEN setInterval(timers, "engine")
                             ELSE IF responseProcessor
                                  THEN clearInterval(timers, "engine") ELSE timers]
    ELSE IF layer = "autoClipping"
    THEN IF enabled = clipActive THEN current
         ELSE [current EXCEPT
                  !.clipActive = enabled, !.clipProcessor = enabled,
                  !.clipDue = FALSE,
                  !.timers = IF enabled THEN setInterval(timers, "clipper")
                             ELSE IF clipProcessor
                                  THEN clearInterval(timers, "clipper") ELSE timers]
    ELSE IF enabled = isObserving THEN current
         ELSE [current EXCEPT
                  !.isObserving = enabled, !.analysisInterval = enabled,
                  !.analysisDue = FALSE,
                  !.timers = IF enabled THEN setInterval(timers, "observer")
                             ELSE IF analysisInterval
                                  THEN clearInterval(timers, "observer") ELSE timers]

\* the POST routes of setupRoutes, by their path under /api
postRoute(route, arg) ==
    CASE route = "ai/intensity" ->
             IF "generativeAI" \in features
             THEN [current EXCEPT !.intensity = clamp(arg.x)]
             ELSE [current EXCEPT !.status = 400]
      [] route = "observer/sensitivity" ->
             IF "streamObserver" \in features
             THEN [current EXCEPT !.sensitivity = clamp(arg.x)]
             ELSE [current EXCEPT !.status = 400]
      [] route = "config" ->
             [current EXCEPT
                 !.intensity = IF "generativeAI" \in features THEN clamp(arg.x)
                               ELSE @,
                 !.sensitivity = IF "streamObserver" \in features THEN clamp(arg.x)
                                 ELSE @]
      [] route = "layers/toggle" -> toggleLayer(arg.layer, arg.enabled)
      [] route = "clips/manual" ->
             IF "autoClipping" \in features
             THEN [current EXCEPT
                      !.clipQueue = queueClip(clipQueue, manualMoment(arg.title)),
                      !.clipSeq = clipSeq + 1,
                      !.clipLog = Append(clipLog,
                          Logged("manual", [serial |-> clipSeq + 1, timestamp |-> now,
                                            moment |-> manualMoment(arg.title)],
                                 FALSE))]
             ELSE [current EXCEPT !.status = 400]
      [] route = "filters/words" -> [current EXCEPT !.bannedList = arg.words]
      [] OTHER -> [current EXCEPT !.status = 404]

\* the paths under /api that have a GET route
getRoutes == {"config", "filters/words"}

\* the routes: what the handler of a request that passed the middleware
\* leaves behind; a request no route matches is answered 404
routed(method, route, arg) ==
    IF method = "POST" THEN postRoute(route, arg)
    ELSE IF method = "GET" /\ route \in getRoutes THEN current
    ELSE [current EXCEPT !.status = 404]

\* A request under /api goes through the middleware and, unless a
\* middleware answers it, to its route.
PanelRequest(method, route, key, body, arg) ==
    /\ panelSeen < MaxRequests
    /\ clipSeq < MaxClipRequests
    /\ panelSeen' = panelSeen + 1
    /\ LET answer == middleware(method, key, body)
           after == IF answer = 0 THEN routed(method, route, arg)
                    ELSE [current EXCEPT !.status = answer]
       IN  /\ lastResponse' = [method |-> method, route |-> route, key |-> key,
                               body |-> body, status |-> after.status,
                               handled |-> answer = 0]
           /\ intensity' = after.intensity
           /\ sensitivity' = after.sensitivity
           /\ isActive' = after.isActive
           /\ responseProcessor' = after.responseProcessor
           /\ drainDue' = after.drainDue
           /\ isObserving' = after.isObserving
           /\ analysisInterval' = after.analysisInterval
           /\ analysisDue' = after.analysisDue
           /\ clipActive' = after.clipActive
           /\ clipProcessor' = after.clipProcessor
           /\ clipDue' = after.clipDue
           /\ timers' = after.timers
           /\ clipQueue' = after.clipQueue
           /\ clipSeq' = after.clipSeq
           /\ clipLog' = after.clipLog
           /\ bannedList' = after.bannedList
    /\ UNCHANGED <<variant, features, now, lastResponseTime, conversationHistory,
                   recentEvents, responseQueue, pending, triggers, calls,
                   unhandled, lastSettled, clientVars, gameplayData,
                   criticalMoments, emitted, listeners, credentials, recentClips,
                   lastClipTime, clipPending, clipTicks, call, frontVars,
                   reactiveVars, recurringVars, panelSecret, production>>

----------------------------------------------------------------------------
(* Specification of the web panel: the bot runs with every layer, with or   *)
(* without a secret and in production or not, and requests of any method,   *)
(* with the right key, a wrong key or none, arrive under /api.              *)

PanelRoutes == {"config", "layers/toggle", "clips/manual", "ai/intensity",
                "observer/sensitivity", "filters/words"}
PanelSecrets == {"", "s3"}
PanelKeys == {"", "s3", "x"}
\* the bodies of the POST requests: a layer is switched on, the settings are
\* put above their range, the deny-list is emptied
PanelArgs ==
    {[x |-> 130, layer |-> l, enabled |-> TRUE, title |-> <<"T">>, words |-> <<>>] :
        l \in {"generativeAI", "autoClipping", "streamObserver"}}
NoArg == [x |-> 0, layer |-> "none", enabled |-> FALSE, title |-> <<>>,
          words |-> <<>>]
\* The requests: a POST with a body that parses, to every route; and
\* requests whose body is not read by a handler, among them a POST whose
\* body does not parse, to a path with a GET route and to one without.
PanelRequests ==
    {[method |-> "POST", route |-> r, key |-> k, body |-> "json", arg |-> a] :
        r \in PanelRoutes, k \in PanelKeys, a \in PanelArgs}
    \cup {[method |-> m, route |-> r, key |-> k, body |-> "json", arg |-> NoArg] :
            m \in {"GET", "DELETE", "OPTIONS"}, r \in {"config", "clips/manual"},
            k \in PanelKeys}
    \cup {[method |-> m, route |-> "config", key |-> k, body |-> "malformed",
           arg |-> NoArg] : m \in {"GET", "POST"}, k \in PanelKeys}

InitPanelRun ==
    /\ variant = "grok"
    /\ features = AllFeatures
    /\ InitEngine(0)
    /\ client = TRUE
    /\ isConnected = TRUE
    /\ chatLog = <<>>
    /\ InitObserver(Half)
    /\ InitClipper(FALSE)
    /\ call = NoDirectCall
    /\ clipProcessor = FALSE
    /\ timers = [c \in Components |-> 0]
    /\ booted = features
    /\ commandsClipper = FALSE
    /\ inbox = <<>>
    /\ InitReactive
    /\ InitRecurring
    /\ \E secret \in PanelSecrets, inProduction \in BOOLEAN :
           InitPanel(secret, inProduction)

NextPanel ==
    \E r \in PanelRequests :
        PanelRequest(r.method, r.route, r.key, r.body, r.arg)

SpecPanel == InitPanelRun /\ [][NextPanel]_vars

----------------------------------------------------------------------------
(* Properties *)

\* the generated replies that reached the chat transport
Replies == {chatLog[i] : i \in {j \in 1..Len(chatLog) : chatLog[j].kind = "reply"}}

\* the completion calls started so far that are still known: in flight or replied
KnownCalls == pending \cup {r.call : r \in Replies}

Distance(a, b) == IF a >= b THEN a - b ELSE b - a

UpperChar(c) ==
    CASE c = "b" -> "B"
      [] c = "o" -> "O"
      [] OTHER -> c

\* the spellings of the bot's name in any letter case
NameSpellings ==
    {[i \in 1..Len(twitchUsername) |->
         IF i \in upper THEN UpperChar(LowerChar(twitchUsername[i]))
         ELSE LowerChar(twitchUsername[i])] : upper \in SUBSET (1..Len(twitchUsername))}

ContainsBotName(message) == \E name \in NameSpellings : includes(message, name)

CooldownElapsed == now - lastResponseTime >= minResponseInterval

\* C1: no two generated replies reach the chat closer together than
\* minResponseInterval.
C1_CooldownInvariant ==
    \A a \in Replies, b \in Replies :
        a.call.id # b.call.id => Distance(a.at, b.at) >= minResponseInterval

\* C2: when a trigger is decided while an earlier trigger's completion call is
\* in flight, the two do not both produce a reply within minResponseInterval.
C2_CheckAndWriteSerialized ==
    \A a \in Replies, b \in Replies :
        a.call.id \in b.call.during => Distance(a.at, b.at) >= minResponseInterval

\* C3: a chat message containing the bot's name that arrives less than
\* minResponseInterval after lastResponseTime starts no completion call.
C3_MentionRespectsCooldown ==
    \A c \in KnownCalls :
        (c.path = "chat" /\ ContainsBotName(c.message))
            => c.startedAt - c.lastAtStart >= minResponseInterval

\* C4: a chat message that starts with the command prefix starts no
\* completion call.
C4_CommandExclusion ==
    \A c \in KnownCalls : c.path = "chat" => ~startsWith(c.message, botPrefix)

\* C5: with the engine active and the cooldown elapsed, the decision on a
\* non-command chat message containing the bot's name in any letter case is
\* to respond, whatever the intensity and the random draw.
C5_MentionOverride ==
    /\ (/\ call.op \in {"shouldRespond", "chatDecisionApiFree"}
        /\ isActive
        /\ CooldownElapsed
        /\ ~startsWith(call.message, botPrefix)
        /\ ContainsBotName(call.message))
           => call.ret
    /\ (/\ call.op = "shouldRespondApiFree"
        /\ isActive
        /\ CooldownElapsed
        /\ call.eventData.type = "chat_mention")
           => call.ret

\* C5, witness: a mention in mixed case accepted at intensity 0.
C5_Witness ==
    /\ call.op = "shouldRespond"
    /\ call.message = <<"x", "b", "O">>
    /\ intensity = 0
    /\ isActive
    /\ CooldownElapsed
    /\ call.ret

\* C6: every generated reply reaches the chat while the engine is active.
C6_NoReplyWhileInactive == \A r \in Replies : r.active

\* C7: lastResponseTime changes only in a step that delivers a reply to the
\* chat transport.
C7_LastResponseOnlyOnDelivery ==
    [][lastResponseTime' # lastResponseTime => Len(chatLog') > Len(chatLog)]_vars

\* C8: a completion call that fails (timeout, network error, error status,
\* body without the expected fields) ends without an exception leaving the
\* handler and without a chat message for its trigger, on both paths.
C8_FailureIsSilent ==
    /\ ~unhandled
    /\ lastSettled.kind \in FailureKinds
           => \A r \in Replies : r.call.id # lastSettled.id

\* C8, witness: a gameplay comment whose completion call timed out, in a run
\* in which a chat reply was delivered.
C8_Witness ==
    /\ lastSettled.kind = "timeout"
    /\ lastSettled.path = "gameplay"
    /\ \E r \in Replies : r.call.path = "chat"

\* C9: after a gameplay comment has been sent at time t, a trigger decided
\* before t + minResponseInterval produces no reply.
C9_GameplayStartsCooldown ==
    \A a \in Replies, b \in Replies :
        (/\ a.call.path = "gameplay"
         /\ b.call.id > a.call.id
         /\ a.call.id \notin b.call.during)
            => b.call.startedAt >= a.at + minResponseInterval

\* the clip-worthiness table
ClipWorthy(type, eventIntensity, sens) ==
    \/ type = "rare_achievement"
    \/ type = "win" /\ eventIntensity > 70
    \/ type = "combo" /\ eventIntensity > sens
    \/ type = "kill" /\ eventIntensity > 80

\* C10: shouldCreateClip returns true exactly for the rows of the table.
C10_ClipWorthinessTable ==
    call.op = "shouldCreateClip"
        => (call.ret <=> ClipWorthy(call.event.type, call.event.intensity,
                                    call.sensitivity))

\* C10, witness: a combo of intensity 0.5 is worthy at sensitivity 0.4.
C10_Witness ==
    /\ call.op = "shouldCreateClip"
    /\ call.event.type = "combo"
    /\ call.event.intensity = 50
    /\ call.sensitivity = 40
    /\ call.ret

\* the entries of clipLog, by position
ClipLogged == DOMAIN clipLog

\* C11: no clip-creation request is posted to the Twitch API less than
\* clipCooldown after a clip was created by it, whatever the queue holds and
\* however the request was queued.
C11_ClipCooldownAtDrain ==
    \A i \in ClipLogged, j \in ClipLogged :
        (/\ i < j
         /\ clipLog[i].kind = "registered"
         /\ ~clipLog[i].simulated
         /\ clipLog[j].kind = "post")
            => clipLog[j].at - clipLog[i].at >= clipCooldown

\* C12: every clip-worthy gameplay event observed while the clipper is active
\* is in the critical moments and has a request queued for it, also when it
\* arrives during the clip cooldown.
C12_WorthyEventIsQueued ==
    \A i \in ClipLogged :
        (clipLog[i].kind = "worthy" /\ clipLog[i].active)
            => /\ \E k \in DOMAIN criticalMoments :
                      criticalMoments[k].id = clipLog[i].at
               /\ \E j \in ClipLogged :
                      /\ clipLog[j].kind = "queued"
                      /\ clipLog[j].serial = clipLog[i].serial

\* C13: for a request taken off the queue more than clipMaxAge after it was
\* queued no request is posted to the Twitch API, no clip is registered and
\* no clipCreated event is emitted.
C13_StaleRequestDiscarded ==
    \A i \in ClipLogged :
        (clipLog[i].kind = "dequeued"
             /\ clipLog[i].at - clipLog[i].enqueuedAt > clipMaxAge)
            => /\ \A j \in ClipLogged :
                      clipLog[j].serial = clipLog[i].serial
                          => clipLog[j].kind \notin {"post", "registered"}
               /\ \A c \in clipPending : c.clipData.serial # clipLog[i].serial
               /\ \A k \in DOMAIN recentClips :
                      recentClips[k].serial # clipLog[i].serial

\* C13, witness: with credentials configured, a request was taken off the
\* queue 130000 ms after it was queued.
C13_Witness ==
    /\ credentials
    /\ \E i \in ClipLogged :
           /\ clipLog[i].kind = "dequeued"
           /\ clipLog[i].at - clipLog[i].enqueuedAt = clipMaxAge + clipPeriod

\* C14: a request taken off the queue in time, once createClip has finished
\* with it, has a clip registered; the clip is a simulated one when the
\* credentials are missing.
C14_DrainedRequestNeverLost ==
    \A i \in ClipLogged :
        (/\ clipLog[i].kind = "dequeued"
         /\ clipLog[i].at - clipLog[i].enqueuedAt <= clipMaxAge
         /\ \A c \in clipPending : c.clipData.serial # clipLog[i].serial)
            => \E j \in ClipLogged :
                   /\ clipLog[j].kind = "registered"
                   /\ clipLog[j].serial = clipLog[i].serial
                   /\ ~credentials => clipLog[j].simulated

\* C15: a step of createManualClip(title) appends exactly one request to the
\* queue, with the given title and event intensity 1.0, whatever the cooldown
\* and the queue.
C15_ManualClipAlwaysQueued ==
    [][(/\ Len(clipLog') = Len(clipLog) + 1
        /\ clipLog'[Len(clipLog')].kind = "manual")
          => /\ Len(clipQueue') = Len(clipQueue) + 1
             /\ SubSeq(clipQueue', 1, Len(clipQueue)) = clipQueue
             /\ clipQueue'[Len(clipQueue')].moment.title
                    = clipLog'[Len(clipLog')].title
             /\ clipQueue'[Len(clipQueue')].moment.event.intensity = Unit]_vars

\* C15, witness: a manual request queued while the cooldown of a clip just
\* created is running.
C15_Witness ==
    \E i \in ClipLogged, j \in ClipLogged :
        /\ j < i
        /\ clipLog[j].kind = "registered"
        /\ clipLog[i].kind = "manual"
        /\ clipLog[i].at - clipLog[j].at < clipCooldown
        /\ \E k \in DOMAIN clipQueue : clipQueue[k].serial = clipLog[i].serial

\* the critical moments added so far, oldest first
MomentsAdded == SelectSeq(emitted, LAMBDA e : e.topic = "criticalMoment")

\* C16: the critical-moment list never holds more than momentsLimit entries;
\* it holds the most recently added ones in the order they were added, and
\* getCriticalMoments(momentsLimit) returns all of them.
C16_MomentsRingBuffer ==
    LET added == MomentsAdded
        kept == Min(Len(added), momentsLimit)
    IN  /\ Len(criticalMoments) <= momentsLimit
        /\ Len(criticalMoments) = kept
        /\ \A k \in 1..kept :
               criticalMoments[k].id = added[Len(added) - kept + k].id
        /\ getCriticalMoments(criticalMoments, momentsLimit) = criticalMoments

\* C16, witness: more moments were added than the list holds, and the one
\* evicted is older than every moment kept.
C16_Witness ==
    /\ Len(MomentsAdded) > momentsLimit
    /\ MomentsAdded[1].id < criticalMoments[1].id

\* max(0, min(1, x)), in hundredths
Clamped(x) == IF x < 0 THEN 0 ELSE IF x > Unit THEN Unit ELSE x

\* C17: after updateIntensity(x) the intensity is max(0, min(1, x)), after
\* updateSensitivity(x) so is the sensitivity, and a setter called with a
\* stored value of that range leaves it as it was.
C17_ClampIdempotent ==
    /\ call.op \in {"updateIntensity", "updateConfig"}
           => /\ intensity = Clamped(call.arg)
              /\ (call.arg = call.intensityBefore
                      /\ call.intensityBefore \in 0..Unit)
                     => intensity = call.intensityBefore
    /\ call.op \in {"updateSensitivity", "updateConfig"}
           => /\ sensitivity = Clamped(call.arg)
              /\ (call.arg = call.sensitivityBefore
                      /\ call.sensitivityBefore \in 0..Unit)
                     => sensitivity = call.sensitivityBefore

\* C17, witness: updateIntensity(0) called when an earlier call had stored 0
\* (the constructor never stores 0).
C17_Witness ==
    /\ call.op = "updateIntensity"
    /\ call.arg = 0
    /\ call.intensityBefore = 0
    /\ intensity = 0

\* C18: the intensity and the sensitivity always lie between 0 and 1.
C18_SettingsInRange ==
    /\ intensity \in 0..Unit
    /\ sensitivity \in 0..Unit

\* the text holds the word at some position, letter case aside
HoldsWord(text, word) ==
    \E i \in 1..(Len(text) - Len(word) + 1) :
        \A k \in 1..Len(word) : LowerChar(text[i + k - 1]) = LowerChar(word[k])

Denied(text) == \E w \in 1..Len(bannedWords) : HoldsWord(text, bannedWords[w])

\* C19: no generated text that reaches the chat, on the chat path or the
\* gameplay path, holds a word of the deny-list in any letter case.
C19_DenyListEnforced == \A r \in Replies : ~Denied(r.text)

\* C20: every subset of the five event types, the empty one and every single
\* type included, is the set of events some tick of the detector fires.
C20_IndependentTrials ==
    \A types \in SUBSET DetectorTypes :
        \E random \in DetectorDraws : firedTypes(random) = types

\* C21: a step that takes a gameplay response off the queue more than
\* queueMaxAge after it was queued starts no completion call and sends no chat
\* message, and no completion call is started for an event queued that long
\* before.
C21_StaleResponseDiscarded ==
    [][/\ (/\ responseQueue # <<>>
            /\ responseQueue' = Tail(responseQueue)
            /\ now - Head(responseQueue).timestamp > queueMaxAge)
               => /\ pending' = pending
                  /\ calls' = calls
                  /\ chatLog' = chatLog
       /\ \A c \in pending' \ pending :
              c.path = "gameplay" => c.startedAt - c.event.timestamp <= queueMaxAge]_vars

\* C21, witness: in the Grok version, which starts a call for every response
\* it takes off the queue in time, the backlog has been taken off the queue
\* and no call was ever started.
C21_Witness ==
    /\ variant = "grok"
    /\ triggers > 0
    /\ responseQueue = <<>>
    /\ calls = 0
    /\ now > StartTime

\* C22: a periodic tick of the response engine, of the clipper and of the
\* observer is due only while the component is active and its timer is live,
\* and while a component is inactive nothing is taken off its queue (the
\* observer processes no event).
C22_NoTickWhileInactive ==
    [][/\ drainDue' => (isActive' /\ responseProcessor')
       /\ ~isActive' => ~responseProcessor'
       /\ clipDue' => clipActive'
       /\ analysisDue' => (isObserving' /\ analysisInterval')
       /\ ~isObserving' => ~analysisInterval'
       /\ ~isActive => Len(responseQueue') >= Len(responseQueue)
       /\ ~clipActive => Len(clipQueue') >= Len(clipQueue)
       /\ ~isObserving => (emitted' = emitted /\ gameplayData' = gameplayData)]_vars

\* C22, witness: the clipper was deactivated with a request in its queue, two
\* of its periods have passed since the request was queued, and the request
\* is still there.
C22_Witness ==
    /\ ~clipActive
    /\ clipQueue # <<>>
    /\ now - Head(clipQueue).timestamp >= 2 * clipPeriod
    /\ \E i \in ClipLogged : clipLog[i].active

\* C27: a step takes at most one item off the response queue and at most one
\* off the clip queue, and a tick that is due can run whatever calls are still
\* waiting for the completion service or the Twitch API.
C27_OneItemPerTick ==
    [][/\ Len(responseQueue') >= Len(responseQueue) - 1
       /\ Len(clipQueue') >= Len(clipQueue) - 1
       /\ (responseProcessor /\ drainDue) => ENABLED DrainTick
       /\ (clipActive /\ clipDue) => ENABLED ProcessClipQueue]_vars

\* C27, witness: two gameplay comments are waiting for the completion
\* service, the second started by the tick that followed the one that started
\* the first.
C27_Witness ==
    \E a \in pending, b \in pending :
           /\ a.path = "gameplay"
           /\ b.path = "gameplay"
           /\ a.id \in b.during
           /\ b.startedAt = a.startedAt + drainInterval

\* the counter of GameplayStats and the event type it counts
CounterType == [kills |-> "kill", deaths |-> "death", wins |-> "win",
                losses |-> "loss", combos |-> "combo",
                rareAchievements |-> "rare_achievement"]

\* the events of type type among the entries emitted has gained in a step
Heard(before, after, type) ==
    Cardinality({i \in (Len(before) + 1)..Len(after) :
                    after[i].topic = "gameplayEvent" /\ after[i].type = type})

\* C23: a step that processes gameplay events adds to every counter the
\* number of processed events of the counter's type, one for each event and
\* nothing for an event of another or an unknown type; any other step leaves
\* the counters as they are, or is reset() and sets them to 0.
C23_StatsCountEvents ==
    [][IF Len(emitted') > Len(emitted)
       THEN \A f \in DOMAIN CounterType :
                gameplayData'[f] = gameplayData[f] + Heard(emitted, emitted', CounterType[f])
       ELSE \/ gameplayData' = gameplayData
            \/ call'.op = "reset" /\ gameplayData' = NoGameplay]_vars

\* C23, witness: a loss was processed, then one tick fired the five types it
\* can fire, and every counter is 1.
C23_Witness ==
    /\ call.op = "analyzeGameplay"
    /\ call.fired = DetectorTypes
    /\ \A f \in DOMAIN CounterType : gameplayData[f] = 1

\* C24: a step of reset() sets the six counters to 0 and empties the critical
\* moments, and leaves isObserving, the analysis timer, a tick that is due
\* and the sensitivity as they are.
C24_ResetKeepsCadence ==
    [][(call'.op = "reset" /\ call.op # "reset")
          => /\ gameplayData' = NoGameplay
             /\ criticalMoments' = <<>>
             /\ UNCHANGED <<isObserving, analysisInterval, analysisDue, sensitivity>>]_vars

\* C24, witness: events were counted and a critical moment was kept, reset()
\* has cleared them, and the tick that was due before is still due.
C24_Witness ==
    /\ call.op = "reset"
    /\ isObserving
    /\ analysisInterval
    /\ analysisDue
    /\ \E i \in DOMAIN emitted : emitted[i].topic = "criticalMoment"
    /\ gameplayData = NoGameplay
    /\ criticalMoments = <<>>

\* A step that processes a chat message: the operations of the engine that
\* count a trigger and touch neither the recent events nor the response queue.
ChatMessageProcessed ==
    /\ isActive
    /\ triggers' = triggers + 1
    /\ recentEvents' = recentEvents
    /\ responseQueue' = responseQueue

\* the history holds an entry for the message of the chat call c
InHistory(history, c) ==
    \E i \in 1..Len(history) :
        IF variant = "grok" THEN history[i].message = c.message
        ELSE history[i].prompt = c.message

\* C29: a step that processes a chat message while the engine is active appends
\* one entry to the conversation history (the oldest entry leaving at the
\* limit), whether or not a completion call is started, and when the call of a
\* chat message has settled the history holds the message, whatever the outcome.
C29_EveryTurnInHistory ==
    [][/\ ChatMessageProcessed =>
              /\ conversationHistory' # conversationHistory
              /\ Len(conversationHistory') =
                     Min(Len(conversationHistory) + 1, historyLimit)
       /\ \A c \in pending :
              (c.path = "chat" /\ pending' = pending \ {c}) =>
                  InHistory(conversationHistory', c)]_vars

\* the entries of clipLog of one kind for the request with serial n
ClipEntries(kind, n) ==
    {i \in ClipLogged : clipLog[i].kind = kind /\ clipLog[i].serial = n}

\* the records of recentClips registered for the request with serial n
ClipRecords(n) == {k \in DOMAIN recentClips : recentClips[k].serial = n}

\* the request with serial n was taken off the queue too old
ClipDiscarded(n) ==
    \E i \in ClipEntries("dequeued", n) :
        clipLog[i].at - clipLog[i].enqueuedAt > clipMaxAge

\* C25: every clip request is taken off the queue at most once and has at
\* most one clip registered; once createClip has finished with it, it is
\* exactly one of discarded, created (a record that is not simulated) and
\* simulated (a simulated record).
C25_OneOutcomePerRequest ==
    \A n \in 1..clipSeq :
        LET created == \E k \in ClipRecords(n) : ~recentClips[k].simulated
            simulated == \E k \in ClipRecords(n) : recentClips[k].simulated
            discarded == ClipDiscarded(n)
        IN  /\ Cardinality(ClipEntries("dequeued", n)) <= 1
            /\ Cardinality(ClipRecords(n)) <= 1
            /\ (/\ ClipEntries("dequeued", n) # {}
                /\ \A c \in clipPending : c.clipData.serial # n)
                   => \/ discarded /\ ~created /\ ~simulated
                      \/ ~discarded /\ created /\ ~simulated
                      \/ ~discarded /\ ~created /\ simulated

\* C26: every record of recentClips has exactly one clipCreated emission with
\* its request, title and simulated flag, made when it was registered; every
\* emission is that of a record; no emission is made for a discarded request.
C26_ClipCreatedPerRecord ==
    /\ \A k \in DOMAIN recentClips :
           Cardinality({i \in ClipEntries("clipCreated", recentClips[k].serial) :
                           /\ clipLog[i].simulated = recentClips[k].simulated
                           /\ clipLog[i].at = recentClips[k].createdAt
                           /\ clipLog[i].title = recentClips[k].moment.title}) = 1
    /\ \A i \in ClipLogged :
           clipLog[i].kind = "clipCreated"
               => /\ \E k \in ClipRecords(clipLog[i].serial) :
                         recentClips[k].simulated = clipLog[i].simulated
                  /\ ~ClipDiscarded(clipLog[i].serial)
    /\ Cardinality({i \in ClipLogged : clipLog[i].kind = "clipCreated"})
           = Len(recentClips)

\* C26, witness: a clip created by the Twitch API and a simulated clip of
\* another request are registered and emitted.
C26_Witness ==
    /\ \E k \in DOMAIN recentClips, m \in DOMAIN recentClips :
           /\ ~recentClips[k].simulated
           /\ recentClips[m].simulated
           /\ recentClips[k].serial # recentClips[m].serial
           /\ ClipEntries("clipCreated", recentClips[k].serial) # {}
           /\ ClipEntries("clipCreated", recentClips[m].serial) # {}

\* the window w becomes w2: nothing happens, or one entry is added at the
\* end and, with the window at its limit, the oldest entry leaves
Slides(w, w2, limit) ==
    w2 # w =>
        /\ Len(w2) = Min(Len(w) + 1, limit)
        /\ SubSeq(w2, 1, Len(w2) - 1) = IF Len(w) = limit THEN Tail(w) ELSE w

\* C30: the conversation history never holds more than historyLimit entries,
\* the recent events never more than recentEventsLimit, the recent clips never
\* more than clipsLimit, and every step that changes one of them adds one
\* entry at the end and drops the oldest entry when the window is full.
C30_WindowsBounded ==
    [][/\ Len(conversationHistory) <= historyLimit
       /\ Len(conversationHistory') <= historyLimit
       /\ Len(recentEvents) <= recentEventsLimit
       /\ Len(recentEvents') <= recentEventsLimit
       /\ Len(recentClips) <= clipsLimit
       /\ Len(recentClips') <= clipsLimit
       /\ Slides(conversationHistory, conversationHistory', historyLimitOf(variant))
       /\ Slides(recentEvents, recentEvents', recentEventsLimit)
       /\ Slides(recentClips, recentClips', clipsLimit)]_vars

\* C30, witness: the three windows are full, each has lost its oldest entry
\* and ends with an entry added in this run.
C30_Witness ==
    /\ Len(conversationHistory) = historyLimit
    /\ conversationHistory[1].timestamp = PastTime(2)
    /\ conversationHistory[historyLimit].timestamp >= now - clipPeriod
    /\ Len(recentEvents) = recentEventsLimit
    /\ recentEvents[1].timestamp = PastTime(2)
    /\ recentEvents[recentEventsLimit].timestamp >= now - clipPeriod
    /\ Len(recentClips) = clipsLimit
    /\ recentClips[1].createdAt = PastTime(2)
    /\ recentClips[clipsLimit].serial = 1

\* the entries q2 holds after those of q
Added(q, q2) == SubSeq(q2, Len(q) + 1, Len(q2))

\* the last n entries of q
LastN(q, n) == SubSeq(q, Len(q) - n + 1, Len(q))

\* the events emitted on a topic among the emissions es, in emission order
EmittedOn(topic, es) ==
    LET onTopic(e) == e.topic = topic
        chosen == SelectSeq(es, onTopic)
    IN  [i \in DOMAIN chosen |-> <<chosen[i].type, chosen[i].id>>]

\* a is b with some entries left out, the order kept
RECURSIVE IsSubsequence(_, _)
IsSubsequence(a, b) ==
    IF a = <<>> THEN TRUE
    ELSE IF b = <<>> THEN FALSE
    ELSE IF Head(a) = Head(b) THEN IsSubsequence(Tail(a), Tail(b))
    ELSE IsSubsequence(a, Tail(b))

\* a queue after a step: untouched, its head taken, or entries added at its
\* end for events emitted in the step, in the order of their emission
FifoStep(q, q2, events, emissions) ==
    \/ q2 = q
    \/ q # <<>> /\ q2 = Tail(q)
    \/ /\ Len(q2) > Len(q)
       /\ SubSeq(q2, 1, Len(q)) = q
       /\ IsSubsequence(events, emissions)

\* C28: emissions are only added to those made, each calls the listeners of
\* its topic in the order of their registration; the engine receives the
\* gameplay events of a step in emission order (they end recentEvents in that
\* order); the response queue and the clip queue lose entries at the head
\* only and gain entries at the end only, for the emitted events in emission
\* order; a completion call started by the drainer is for the head of the
\* response queue.
C28_EmissionOrderKept ==
    [][LET emissions == Added(emitted, emitted')
           gameplay == EmittedOn("gameplayEvent", emissions)
           moments == EmittedOn("criticalMoment", emissions)
           queued == Added(responseQueue, responseQueue')
           requested == Added(clipQueue, clipQueue')
       IN  /\ SubSeq(emitted', 1, Len(emitted)) = emitted
           /\ \A i \in DOMAIN emissions :
                  emissions[i].called = listeners[emissions[i].topic]
           /\ (variant = "grok" /\ isActive /\ gameplay # <<>>) =>
                  LET received == LastN(recentEvents', Len(gameplay))
                  IN  [i \in DOMAIN received |->
                          <<received[i].type, received[i].timestamp>>] = gameplay
           /\ FifoStep(responseQueue, responseQueue',
                       [i \in DOMAIN queued |->
                           <<queued[i].event.type, queued[i].timestamp>>], gameplay)
           /\ FifoStep(clipQueue, clipQueue',
                       [i \in DOMAIN requested |->
                           <<requested[i].moment.event.type, requested[i].timestamp>>],
                       moments)
           /\ \A c \in pending' \ pending :
                  c.path = "gameplay" =>
                      /\ responseQueue # <<>>
                      /\ c.event = Head(responseQueue).event
                      /\ responseQueue' = Tail(responseQueue)
           /\ (Len(recentClips') > Len(recentClips)) =>
                  /\ clipQueue # <<>>
                  /\ recentClips'[Len(recentClips')].serial = Head(clipQueue).serial
                  /\ clipQueue' = Tail(clipQueue)]_vars

\* C28, witness: one period's events were emitted to two listeners of a
\* topic; the drainer has started the call for the first of them while a
\* later one waits in the response queue, and the clipper has registered the
\* clip of the first critical moment while a later one waits in the clip queue.
C28_Witness ==
    /\ \E i \in DOMAIN emitted : Len(emitted[i].called) = 2
    /\ responseQueue # <<>>
    /\ \E c \in pending :
           /\ c.path = "gameplay"
           /\ c.event.type = "kill"
           /\ Head(responseQueue).event.type # "kill"
           /\ Head(responseQueue).timestamp = c.event.timestamp
    /\ clipQueue # <<>>
    /\ \E k \in DOMAIN recentClips :
           /\ recentClips[k].serial < Head(clipQueue).serial
           /\ recentClips[k].moment.timestamp = Head(clipQueue).moment.timestamp

\* C31: with the engine active and the cooldown elapsed, a gameplay event is
\* accepted exactly when its intensity reaches Unit - intensity: the Grok
\* version takes the decision when it processes the event (the event is
\* queued for a comment or not), the ApiFreeLLM version when the drainer
\* takes the event off the queue (the completion call is started or not).
C31_GameplayThreshold ==
    [][/\ (/\ variant = "grok"
           /\ isActive
           /\ CooldownElapsed
           /\ triggers' = triggers + 1
           /\ recentEvents' # recentEvents)
              => LET event == recentEvents'[Len(recentEvents')]
                 IN  (OrDefault(event.intensity) >= Unit - intensity)
                         <=> (Len(responseQueue') = Len(responseQueue) + 1)
       /\ (/\ variant = "apifree"
           /\ isActive
           /\ CooldownElapsed
           /\ responseQueue # <<>>
           /\ responseQueue' = Tail(responseQueue)
           /\ ~queueIsStale(now - Head(responseQueue).timestamp))
              => ((OrDefault(Head(responseQueue).event.intensity) >= Unit - intensity)
                      <=> (calls' = calls + 1))]_vars

\* C32: the engine, the clipper and the observer each hold the handle of a
\* timer exactly when they are active, and each has one live timer when it is
\* active and none when it is not.
C32_OneTimerWhenActive ==
    /\ responseProcessor <=> isActive
    /\ clipProcessor <=> clipActive
    /\ analysisInterval <=> isObserving
    /\ timers["engine"] = IF isActive THEN 1 ELSE 0
    /\ timers["clipper"] = IF clipActive THEN 1 ELSE 0
    /\ timers["observer"] = IF isObserving THEN 1 ELSE 0

\* C32, witness: the three components are active after the clock has moved,
\* and the callbacks of their timers are due.
C32_Witness ==
    /\ isActive /\ clipActive /\ isObserving
    /\ timers = [c \in Components |-> 1]
    /\ drainDue /\ analysisDue /\ clipDue

\* C33: with the clipper active and requests no longer arriving, every
\* request in the clip queue is taken off the queue, and the queue is empty
\* again and again, whatever the Twitch API does.
C33_ClipQueueDrains ==
    /\ \A n \in 1..MaxClipRequests :
           (\E i \in DOMAIN clipQueue : clipQueue[i].serial = n)
               ~> (ClipEntries("dequeued", n) # {})
    /\ []<>(clipQueue = <<>>)

\* C33, witness: two requests were taken off the queue, the second while the
\* createClip call of the first was still waiting on the Twitch API; the
\* queue is empty.
C33_Witness ==
    /\ clipQueue = <<>>
    /\ ClipEntries("dequeued", 1) # {}
    /\ ClipEntries("dequeued", 2) # {}
    /\ \E c \in clipPending : c.clipData.serial = 1

\* a step in which the handler takes a message of somebody else
MessageTaken ==
    /\ Len(inbox') = Len(inbox) + 1
    /\ ~inbox'[Len(inbox')].self

\* C34: with the chat commands and the automatic clipping both enabled, a
\* '!clip' command processed after initialization has finished puts one
\* manual clip request into the clipper's queue.
C34_ClipCommandEnqueues ==
    [][/\ MessageTaken
       /\ {"chatCommands", "autoClipping"} \subseteq features
       /\ booted = features
       /\ startsWith(inbox'[Len(inbox')].message, botPrefix)
       /\ commandOf(inbox'[Len(inbox')].message) = clipWord
       => /\ Len(clipQueue') = Len(clipQueue) + 1
          /\ clipQueue'[Len(clipQueue')].moment.event.type = "manual"]_vars

\* C35: a chat message sent by the bot itself is dropped by the handler: the
\* step that takes it sends nothing to the chat, runs no command, queues no
\* clip request and leaves the engine's history, triggers and calls alone.
C35_OwnMessagesDropped ==
    [][Len(inbox') = Len(inbox) + 1 /\ inbox'[Len(inbox')].self
       => UNCHANGED <<chatLog, clipperVars, triggers, conversationHistory,
                      pending, calls, responseQueue>>]_vars

\* The bot's own messages, a '!clip' command and a mention of the bot among
\* them, arrived with every layer initialised and the engine active, and
\* nothing reacted.
C35_Witness ==
    /\ booted = features
    /\ "generativeAI" \in features
    /\ isActive
    /\ \E i \in 1..Len(inbox) :
           inbox[i].self /\ commandOf(inbox[i].message) = clipWord
    /\ \E i \in 1..Len(inbox) :
           inbox[i].self /\ mentionsBot(inbox[i].message)
    /\ \A i \in 1..Len(inbox) : inbox[i].self
    /\ triggers = 0
    /\ conversationHistory = <<>>
    /\ \A i \in 1..Len(chatLog) : chatLog[i].kind = "status"

\* the entries of a kind among the entries es of a log
OfKind(kind, es) ==
    LET isKind(e) == e.kind = kind
    IN  SelectSeq(es, isKind)

\* C36: in every step, each 'clipCreated' emission whose record is not
\* simulated is announced once in every configured channel, and nothing else
\* is announced: a simulated record causes no chat message.
C36_AnnouncedWhenReal ==
    [][LET created == OfKind("clipCreated", Added(clipLog, clipLog'))
           real == {i \in 1..Len(created) : ~created[i].simulated}
           said == OfKind("clip", Added(chatLog, chatLog'))
       IN  /\ Len(Added(chatLog, chatLog')) = Len(said)
           /\ \A k \in 1..Len(twitchChannels) :
                  Cardinality({i \in 1..Len(said) :
                                  said[i].channel = twitchChannels[k]})
                      = Cardinality(real)]_vars

\* the reactive responses that reached the chat
ReactiveSent == OfKind("reactive", chatLog)

\* C37: any two reactive responses are sent at least minResponseInterval
\* apart, also when a message is processed while an earlier one waits for
\* its AI answer.
C37_ReactiveCooldown ==
    \A i, j \in 1..Len(ReactiveSent) :
        i < j => ReactiveSent[j].at - ReactiveSent[i].at >= reactiveMinInterval

\* the recurring messages sent in a step
RecurringSaid == OfKind("recurring", Added(chatLog, chatLog'))

\* a step in which a timeout of the recurring messages fires
TimeoutFired ==
    /\ recurringActive' = recurringActive
    /\ \E t \in timeouts : t \notin timeouts'

\* C38: the recurring messages never have more than one timeout pending,
\* whatever the order of activate, deactivate and firings; a recurring
\* message is sent only while the module is active and the last chat
\* activity is at least minChatActivityInterval old; a firing that finds
\* the chat active sends nothing and sets the timer again.
C38_RecurringDiscipline ==
    /\ [](Cardinality(timeouts) <= 1)
    /\ [][RecurringSaid # <<>>
             => /\ TimeoutFired
                /\ recurringActive
                /\ now - lastChatActivity >= minChatActivityInterval]_vars
    /\ [][TimeoutFired /\ recurringActive
              /\ now - lastChatActivity < minChatActivityInterval
             => /\ RecurringSaid = <<>>
                /\ Cardinality(timeouts') = 1
                /\ \A t \in timeouts' : t.id = recurringTimer' /\ t.due > now]_vars

\* A recurring message was sent after an earlier firing had been put off
\* because the chat was active, and the timer is set for the next one.
C38_Witness ==
    /\ recurringActive
    /\ Cardinality(timeouts) = 1
    /\ lastChatActivity > StartTime
    /\ \E i \in 1..Len(chatLog) :
           /\ chatLog[i].kind = "recurring"
           /\ chatLog[i].at > StartTime + intervalTime
           /\ chatLog[i].at - lastChatActivity >= minChatActivityInterval

\* the bot state a request of the panel can reach
BotState ==
    <<intensity, sensitivity, isActive, responseProcessor, isObserving,
      analysisInterval, clipActive, clipProcessor, timers, clipQueue, clipSeq,
      clipLog, bannedList>>

\* a step in which the panel answers a request
PanelAnswered == panelSeen' = panelSeen + 1

\* the request just answered is not a GET and lacks the configured key
Unauthorized(r) == r.method # "GET" /\ r.key # panelSecret

\* C39, as stated: with WEB_PANEL_SECRET configured, every request under
\* /api that is not a GET and does not carry the configured x-api-key is
\* answered 401 and changes no bot state; a GET is never asked for the key
\* and changes no bot state.
C39_UnauthorizedIs401 ==
    [][PanelAnswered /\ panelSecret # ""
       => /\ Unauthorized(lastResponse')
              => lastResponse'.status = 401 /\ UNCHANGED BotState
          /\ lastResponse'.method = "GET"
              => lastResponse'.status \notin {401, 500} /\ UNCHANGED BotState]_vars

\* C39, amended: with WEB_PANEL_SECRET configured, a request under /api that
\* is not a GET and does not carry the configured x-api-key reaches no route
\* handler and changes no bot state; it is answered 401, unless a middleware
\* registered before the authentication answers first: cors() answers an
\* OPTIONS request with 204 and express.json() a malformed body with 400.
\* A GET is never asked for the key and changes no bot state.
C39_UnauthorizedChangesNothing ==
    [][PanelAnswered /\ panelSecret # ""
       => /\ Unauthorized(lastResponse')
              => /\ ~lastResponse'.handled
                 /\ UNCHANGED BotState
                 /\ lastResponse'.status =
                        IF lastResponse'.method = "OPTIONS" THEN 204
                        ELSE IF lastResponse'.body = "malformed" THEN 400
                        ELSE 401
          /\ lastResponse'.method = "GET"
              => lastResponse'.status \notin {401, 500} /\ UNCHANGED BotState]_vars

\* A POST with a wrong key was answered 401 after a request with the right
\* key had switched the engine on.
C39_Witness ==
    /\ panelSecret # ""
    /\ lastResponse.method = "POST"
    /\ lastResponse.key \notin {"", panelSecret}
    /\ lastResponse.body = "json"
    /\ lastResponse.status = 401
    /\ isActive

====
